---- MODULE Spec2Model ----
(***************************************************************************)
(* Resource-redistribution simulator (rgrr): the Fenwick index, the        *)
(* population (Model / Node), Simulator.add_resources_to_node, the         *)
(* distribution, tax and expenditure operations, Simulator.run and         *)
(* MultiStepSimulator.run.                                                 *)
(*                                                                         *)
(* Node ids are 0..N-1.  Nodes is a function from node id to the node's    *)
(* fields.  fenwick_tree is the numpy array of size N+1 (slot 0 unused).   *)
(* Tax rates are the rationals num/den; the rates used are dyadic, so the  *)
(* float product resources_added * tax_rate is exact for the magnitudes    *)
(* of the model and int() is truncation toward zero of the exact product.  *)
(* random.randint is a nondeterministic choice over its closed range.      *)
(***************************************************************************)
EXTENDS Integers, Sequences, FiniteSets, TLC

\* ---------------------------------------------------------------- bounds
\* node counts are 0..MaxNodes; a distribution injects 0..MaxAdded units
MaxNodes == 3
MaxAdded == 2
\* the other inputs of a run: Model's resources_per_node, the epoch count,
\* the length of the operation list, RequiredExpenditure's amount
InitialResources == {0, 1}
EpochCounts == {1, 2}
OperationCounts == {0, 1, 2}
Expenditures == {0, 1, 2}
\* direct add_resources_to_node calls: how many per run, and their amounts
MaxDirectCalls == 1
DirectAmounts == {-1, 1}

VARIABLES
    Nodes,                      \* model.Nodes: id -> [resources, resources_added]
    total_resources,            \* model.total_resources
    fenwick_tree,               \* simulator.fenwick_tree.tree
    total_tax_collected,        \* simulator.total_tax_collected
    total_expenditure_incurred, \* simulator.total_expenditure_incurred
    operations,                 \* MultiStepSimulator.operations
    epochs,                     \* MultiStepSimulator.epochs
    epoch,                      \* number of Simulator objects built so far
    pc,                         \* index in operations of the next operation
    status,                     \* "idle" | "running" | "done" | "failed"
    last,                       \* history: the step that led here
    history,                    \* history: totals over the whole run
    server,                     \* simulation_store.simulations and the request served
    seed,                       \* MultiStepSimulator.seed ("None" or an integer)
    rng                         \* the state of the module-level random generator

vars == <<Nodes, total_resources, fenwick_tree, total_tax_collected,
          total_expenditure_incurred, operations, epochs, epoch, pc, status,
          last, history, seed, rng, server>>

\* ------------------------------------------------------------ arithmetic
RECURSIVE BitLength(_)
\* int.bit_length() of a natural number
BitLength(n) == IF n = 0 THEN 0 ELSE 1 + BitLength(n \div 2)

RECURSIVE LowBit(_)
\* i & (-i) for i > 0: the lowest set bit of i
LowBit(i) == IF i % 2 = 1 THEN 1 ELSE 2 * LowBit(i \div 2)

RECURSIVE Pow2(_)
\* 1 << n
Pow2(n) == IF n = 0 THEN 1 ELSE 2 * Pow2(n - 1)

\* int(x) of the exact quotient num/den, den > 0: truncation toward zero
IntTrunc(num, den) == IF num >= 0 THEN num \div den ELSE -((-num) \div den)

\* the amount itself instead of min(balance, amount)
MinIgnoringFirst(a, b) == b

Min(a, b) == IF a <= b THEN a ELSE b

\* len(tree): the array has slots 0..size
TreeLen(tree) == Cardinality(DOMAIN tree)

\* len(model.Nodes)
NodeCount(nodes) == Cardinality(DOMAIN nodes)

\* ---------------------------------------------------------- FenwickTree
\* FenwickTree.__init__: np.zeros(size + 1)
FenwickTreeInit(size) == [j \in 0..size |-> 0]

RECURSIVE FenwickAddLoop(_, _, _)
FenwickAddLoop(tree, i, delta) ==
    IF i < TreeLen(tree)
    THEN FenwickAddLoop([tree EXCEPT ![i] = @ + delta], i + LowBit(i), delta)
    ELSE tree

\* FenwickTree.add(i, delta) for 0 <= i
FenwickAdd(tree, i, delta) == FenwickAddLoop(tree, i + 1, delta)

RECURSIVE FenwickAddBelowZero(_, _, _)
\* the loop of FenwickTree.add at a position i <= 0: a negative i indexes the
\* array from its end (IndexError when i < -len(tree)) and moves toward 0 by
\* i & (-i); at i = 0 the step i & (-i) is 0 and the loop writes slot 0 for
\* ever ("hang", shown after its first write)
FenwickAddBelowZero(tree, i, delta) ==
    IF i = 0
    THEN [tree |-> [tree EXCEPT ![0] = @ + delta], outcome |-> "hang"]
    ELSE IF i < -TreeLen(tree)
         THEN [tree |-> tree, outcome |-> "IndexError"]
         ELSE FenwickAddBelowZero([tree EXCEPT ![TreeLen(tree) + i] = @ + delta],
                                  i + LowBit(-i), delta)

\* FenwickTree.add(i, delta) for any integer i: the tree it leaves and whether
\* it returned, raised or never returns
FenwickTreeAdd(tree, i, delta) ==
    IF i + 1 <= 0
    THEN FenwickAddBelowZero(tree, i + 1, delta)
    ELSE [tree |-> FenwickAddLoop(tree, i + 1, delta), outcome |-> "returned"]

RECURSIVE PrefixSumLoop(_, _, _)
PrefixSumLoop(tree, i, s) ==
    IF i > 0 THEN PrefixSumLoop(tree, i - LowBit(i), s + tree[i]) ELSE s

\* FenwickTree.prefix_sum(i) for 0 <= i < size
prefix_sum(tree, i) == PrefixSumLoop(tree, i + 1, 0)

RECURSIVE FindKthLoop(_, _, _, _)
FindKthLoop(tree, i, p, k) ==
    IF p > 0
    THEN IF i + p < TreeLen(tree) /\ tree[i + p] < k
         THEN FindKthLoop(tree, i + p, p \div 2, k - tree[i + p])
         ELSE FindKthLoop(tree, i, p \div 2, k)
    ELSE i

\* find_kth descending on tree[i + p] <= k instead of tree[i + p] < k
FindKthNotStrict(tree, k) ==
    LET RECURSIVE Loop(_, _, _)
        Loop(i, p, r) ==
            IF p > 0
            THEN IF i + p < TreeLen(tree) /\ tree[i + p] <= r
                 THEN Loop(i + p, p \div 2, r - tree[i + p])
                 ELSE Loop(i, p \div 2, r)
            ELSE i
    IN Loop(0, Pow2(BitLength(TreeLen(tree)) - 1), k)

\* FenwickTree.find_kth(k)
find_kth(tree, k) ==
    FindKthLoop(tree, 0, Pow2(BitLength(TreeLen(tree)) - 1), k)

\* ------------------------------------------------------- Model, Simulator
\* Node.__init__
Node(resources) == [resources |-> resources, resources_added |-> 0]

\* Model.__init__: the Nodes list; total_resources is size * resources_per_node
ModelNodes(size, resources_per_node) ==
    [i \in 0..(size - 1) |-> Node(resources_per_node)]

\* the simulator and the model it holds, as one value
Sim ==
    [Nodes |-> Nodes,
     total_resources |-> total_resources,
     fenwick_tree |-> fenwick_tree,
     total_tax_collected |-> total_tax_collected,
     total_expenditure_incurred |-> total_expenditure_incurred]

RECURSIVE FenwickBuildLoop(_, _, _)
FenwickBuildLoop(tree, nodes, i) ==
    IF i < NodeCount(nodes)
    THEN FenwickBuildLoop(FenwickAdd(tree, i, nodes[i].resources), nodes, i + 1)
    ELSE tree

\* Simulator.__init__ leaving the new Fenwick tree empty
SimulatorInitEmptyTree(nodes, total) ==
    [Nodes |-> nodes,
     total_resources |-> total,
     fenwick_tree |-> FenwickTreeInit(NodeCount(nodes)),
     total_tax_collected |-> 0,
     total_expenditure_incurred |-> 0]

\* Simulator.__init__: zero counters, a new Fenwick tree filled from the nodes
SimulatorInit(nodes, total) ==
    [Nodes |-> nodes,
     total_resources |-> total,
     fenwick_tree |-> FenwickBuildLoop(FenwickTreeInit(NodeCount(nodes)), nodes, 0),
     total_tax_collected |-> 0,
     total_expenditure_incurred |-> 0]

\* the assertion with the upper bound included
NodeIdUpToCount(s, node_id) == 0 <= node_id /\ node_id <= NodeCount(s.Nodes)

\* the assertion of add_resources_to_node
NodeIdInRange(s, node_id) == 0 <= node_id /\ node_id < NodeCount(s.Nodes)

\* add_resources_to_node without the update of model.total_resources
AddResourcesKeepingTotal(s, node_id, amount) ==
    [s EXCEPT !.Nodes[node_id].resources = @ + amount,
              !.Nodes[node_id].resources_added = @ + amount,
              !.fenwick_tree = FenwickAdd(@, node_id, amount)]

\* add_resources_to_node without the update of node.resources_added
AddResourcesNotCounted(s, node_id, amount) ==
    [s EXCEPT !.Nodes[node_id].resources = @ + amount,
              !.total_resources = @ + amount,
              !.fenwick_tree = FenwickAdd(@, node_id, amount)]

\* add_resources_to_node with a counter of what came in: a deduction does not
\* lower node.resources_added
AddResourcesCountingGains(s, node_id, amount) ==
    [s EXCEPT !.Nodes[node_id].resources = @ + amount,
              !.Nodes[node_id].resources_added = @ + (IF amount > 0 THEN amount ELSE 0),
              !.total_resources = @ + amount,
              !.fenwick_tree = FenwickAdd(@, node_id, amount)]

\* Simulator.add_resources_to_node, node_id in range
add_resources_to_node(s, node_id, amount) ==
    [s EXCEPT !.Nodes[node_id].resources = @ + amount,
              !.Nodes[node_id].resources_added = @ + amount,
              !.total_resources = @ + amount,
              !.fenwick_tree = FenwickAdd(@, node_id, amount)]

\* Simulator.get_resource_distribution
get_resource_distribution(s) == [i \in DOMAIN s.Nodes |-> s.Nodes[i].resources]

\* a run that starts without resetting the counters
KeepResourcesAdded(s) == s

\* Simulator.run, first loop: resources_added = 0 for every node
ResetResourcesAdded(s) ==
    [s EXCEPT !.Nodes = [i \in DOMAIN s.Nodes |-> [s.Nodes[i] EXCEPT !.resources_added = 0]]]

\* the attributes a MultiStepSimulator object has: those __init__ sets; run()
\* sets none
MultiStepSimulatorAttributes == {"model", "epochs", "operations", "seed"}

\* a caller's read of simulation.distributions: the attribute does not exist,
\* the read raises AttributeError and gives no value
ReadDistributions ==
    [raised |-> "distributions" \notin MultiStepSimulatorAttributes,
     value |-> <<>>]

\* ------------------------------------------------------------ operations
RECURSIVE UniformLoop(_, _, _, _)
UniformLoop(s, i, resources_per_node, remainder) ==
    IF i < NodeCount(s.Nodes)
    THEN UniformLoop(
             add_resources_to_node(s, i,
                 resources_per_node + (IF i < remainder THEN 1 ELSE 0)),
             i + 1, resources_per_node, remainder)
    ELSE s

\* _distribute unpacking divmod in the wrong order
UniformDistributeSwapped(s, total) ==
    IF NodeCount(s.Nodes) = 0
    THEN s
    ELSE UniformLoop(s, 0, total % NodeCount(s.Nodes), total \div NodeCount(s.Nodes))

\* _distribute handing out the equal shares only
UniformDistributeNoRemainder(s, total) ==
    IF NodeCount(s.Nodes) = 0
    THEN s
    ELSE UniformLoop(s, 0, total \div NodeCount(s.Nodes), 0)

\* UniformResourceDistribution._distribute
UniformDistribute(s, total) ==
    IF NodeCount(s.Nodes) = 0
    THEN s
    ELSE UniformLoop(s, 0, total \div NodeCount(s.Nodes), total % NodeCount(s.Nodes))

RECURSIVE RandomLoop(_, _, _)
RandomLoop(s, draws, j) ==
    IF j <= Len(draws)
    THEN RandomLoop(add_resources_to_node(s, draws[j], 1), draws, j + 1)
    ELSE s

\* _distribute with range(1, total): the first unit is never placed
RandomDistributeFromOne(s, draws) == RandomLoop(s, draws, 2)

\* _distribute drawing the node once, before the loop
RandomDistributeOneDraw(s, draws) ==
    RandomLoop(s, [j \in 1..Len(draws) |-> draws[1]], 1)

\* RandomResourceDistribution._distribute; draws[j] is the j-th
\* random.randint(0, len(Nodes) - 1)
RandomDistribute(s, draws) == RandomLoop(s, draws, 1)

\* the weighted draw taken with random.randint(0, total_weight)
PreferentialDrawsFromZero(s) ==
    IF s.total_resources = 0
    THEN IF NodeCount(s.Nodes) = 0
         THEN {[node_id |-> -1, fallback |-> TRUE]}
         ELSE {[node_id |-> random_node_id, fallback |-> TRUE] :
                  random_node_id \in 0..(NodeCount(s.Nodes) - 1)}
    ELSE IF s.total_resources < 0
         THEN {[node_id |-> -1, fallback |-> FALSE]}
         ELSE {[node_id |-> find_kth(s.fenwick_tree, rand_val), fallback |-> FALSE] :
                  rand_val \in 0..s.total_resources}

\* one unit of the preferential loop: the node each value random.randint can
\* return selects (rand_val in 1..total_weight resolved by find_kth, or the
\* random node id of the zero-total fallback); node_id = -1 stands for
\* randint raising ValueError on an empty range
PreferentialDraws(s) ==
    IF s.total_resources = 0
    THEN IF NodeCount(s.Nodes) = 0
         THEN {[node_id |-> -1, fallback |-> TRUE]}
         ELSE {[node_id |-> random_node_id, fallback |-> TRUE] :
                  random_node_id \in 0..(NodeCount(s.Nodes) - 1)}
    ELSE IF s.total_resources < 0
         THEN {[node_id |-> -1, fallback |-> FALSE]}
         ELSE {[node_id |-> find_kth(s.fenwick_tree, rand_val), fallback |-> FALSE] :
                  rand_val \in 1..s.total_resources}

\* _distribute reading total_weight once, before the loop
PreferentialRunsStaleTotal(s, q) ==
    LET total_weight == s.total_resources
        RECURSIVE Runs(_, _)
        Runs(t, n) ==
            IF n = 0
            THEN {[final |-> t, draws |-> <<>>, ok |-> TRUE]}
            ELSE UNION {
                IF NodeIdInRange(t, d.node_id)
                THEN {[r EXCEPT !.draws = <<d>> \o @] :
                         r \in Runs(add_resources_to_node(t, d.node_id, 1), n - 1)}
                ELSE {[final |-> t, draws |-> <<d>>, ok |-> FALSE]}
                : d \in PreferentialDraws([t EXCEPT !.total_resources = total_weight])}
    IN Runs(s, q)

RECURSIVE PreferentialRuns(_, _)
\* PreferentialResourceDistribution._distribute: every run of the loop for
\* q units from s, as [final, draws, ok]; ok = FALSE when a draw raised
\* (final is then the state the exception left)
PreferentialRuns(s, q) ==
    IF q = 0
    THEN {[final |-> s, draws |-> <<>>, ok |-> TRUE]}
    ELSE UNION {
        IF NodeIdInRange(s, d.node_id)
        THEN {[r EXCEPT !.draws = <<d>> \o @] :
                 r \in PreferentialRuns(add_resources_to_node(s, d.node_id, 1), q - 1)}
        ELSE {[final |-> s, draws |-> <<d>>, ok |-> FALSE]}
        : d \in PreferentialDraws(s)}

\* the rate check without its upper bound
TaxRateNotNegative(tax_rate) == 0 <= tax_rate.num

\* 0 <= tax_rate <= 1
TaxRateValid(tax_rate) == 0 <= tax_rate.num /\ tax_rate.num <= tax_rate.den

\* round(node.resources_added * tax_rate), halves up
TaxAmountRounded(resources_added, tax_rate) ==
    (2 * resources_added * tax_rate.num + tax_rate.den) \div (2 * tax_rate.den)

\* twice the tax: more than the node was given
TaxAmountTwice(resources_added, tax_rate) ==
    IntTrunc(2 * resources_added * tax_rate.num, tax_rate.den)

\* int(node.resources_added * tax_rate)
TaxAmount(resources_added, tax_rate) ==
    IntTrunc(resources_added * tax_rate.num, tax_rate.den)

RECURSIVE TaxLoop(_, _, _, _)
\* the loop of IncomeTaxCollectionOperation.execute: [sim, total_tax]
TaxLoop(s, i, tax_rate, total_tax) ==
    IF i < NodeCount(s.Nodes)
    THEN LET tax_amount == TaxAmount(s.Nodes[i].resources_added, tax_rate)
         IN IF tax_amount > 0
            THEN TaxLoop(add_resources_to_node(s, i, -tax_amount), i + 1,
                         tax_rate, total_tax + tax_amount)
            ELSE TaxLoop(s, i + 1, tax_rate, total_tax)
    ELSE [sim |-> s, total_tax |-> total_tax]

\* execute taxing node.resources instead of node.resources_added
IncomeTaxExecuteOnBalance(s, tax_rate) ==
    LET RECURSIVE Loop(_, _, _)
        Loop(t, i, total_tax) ==
            IF i < NodeCount(t.Nodes)
            THEN LET tax_amount == TaxAmount(t.Nodes[i].resources, tax_rate)
                 IN IF tax_amount > 0
                    THEN Loop(add_resources_to_node(t, i, -tax_amount), i + 1,
                              total_tax + tax_amount)
                    ELSE Loop(t, i + 1, total_tax)
            ELSE [t EXCEPT !.total_tax_collected = @ + total_tax]
    IN IF tax_rate.num = 0 THEN s ELSE Loop(s, 0, 0)

\* execute deducting every tax amount that is not 0, a negative one included
IncomeTaxExecuteSigned(s, tax_rate) ==
    LET RECURSIVE Loop(_, _, _)
        Loop(t, i, total_tax) ==
            IF i < NodeCount(t.Nodes)
            THEN LET tax_amount == TaxAmount(t.Nodes[i].resources_added, tax_rate)
                 IN IF tax_amount /= 0
                    THEN Loop(add_resources_to_node(t, i, -tax_amount), i + 1,
                              total_tax + tax_amount)
                    ELSE Loop(t, i + 1, total_tax)
            ELSE [t EXCEPT !.total_tax_collected = @ + total_tax]
    IN IF tax_rate.num = 0 THEN s ELSE Loop(s, 0, 0)

\* IncomeTaxCollectionOperation.execute for a valid rate
IncomeTaxExecute(s, tax_rate) ==
    IF tax_rate.num = 0
    THEN s
    ELSE LET r == TaxLoop(s, 0, tax_rate, 0)
         IN [r.sim EXCEPT !.total_tax_collected = @ + r.total_tax]

\* Simulator.apply_tax for a valid rate (the method behind the
\* IncomeTaxCollectionOperation class of rgrr.simulator): the tax loop, the
\* counter set to this call's tax, then the tax handed back uniformly
apply_tax(s, tax_rate) ==
    IF tax_rate.num = 0
    THEN s
    ELSE LET r == TaxLoop(s, 0, tax_rate, 0)
             collected == [r.sim EXCEPT !.total_tax_collected = r.total_tax]
         IN IF NodeCount(s.Nodes) = 0
            THEN collected
            ELSE UniformLoop(collected, 0,
                             r.total_tax \div NodeCount(s.Nodes),
                             r.total_tax % NodeCount(s.Nodes))

RECURSIVE ExpenditureLoop(_, _, _, _)
\* the loop of RequiredExpenditureOperation.execute: [sim, total]
ExpenditureLoop(s, i, expenditure, total) ==
    IF i < NodeCount(s.Nodes)
    THEN LET amount_to_deduct == Min(s.Nodes[i].resources, expenditure)
         IN ExpenditureLoop(add_resources_to_node(s, i, -amount_to_deduct),
                            i + 1, expenditure, total + amount_to_deduct)
    ELSE [sim |-> s, total |-> total]

\* RequiredExpenditureOperation.execute
RequiredExpenditureExecute(s, expenditure) ==
    IF expenditure = 0
    THEN s
    ELSE LET r == ExpenditureLoop(s, 0, expenditure, 0)
         IN [r.sim EXCEPT !.total_expenditure_incurred = r.total]

\* the random loop returning at once when there are no nodes, as the uniform
\* policy does
RandomRunsGuarded(s, q) ==
    IF NodeCount(s.Nodes) = 0
    THEN {[final |-> s, draws |-> <<>>, ok |-> TRUE]}
    ELSE {[final |-> RandomDistribute(s, ids),
           draws |-> [j \in 1..q |-> [node_id |-> ids[j], fallback |-> FALSE]],
           ok |-> TRUE] :
             ids \in [1..q -> 0..(NodeCount(s.Nodes) - 1)]}

\* RandomResourceDistribution._distribute: every run of the loop for q units
\* from s, as [final, draws, ok]; random.randint(0, -1) raises ValueError
RandomRuns(s, q) ==
    IF NodeCount(s.Nodes) = 0 /\ q > 0
    THEN {[final |-> s,
           draws |-> <<[node_id |-> -1, fallback |-> FALSE]>>,
           ok |-> FALSE]}
    ELSE {[final |-> RandomDistribute(s, ids),
           draws |-> [j \in 1..q |-> [node_id |-> ids[j], fallback |-> FALSE]],
           ok |-> TRUE] :
             ids \in [1..q -> 0..(NodeCount(s.Nodes) - 1)]}

\* ---------------------------------------------------------------- inputs
Rate(num, den) == [num |-> num, den |-> den]

\* tax rates 0, 1/2, 1 and the invalid 3/2
TaxRates == {Rate(0, 1), Rate(1, 2), Rate(1, 1), Rate(3, 2)}

Operation(type, resources_added, tax_rate, expenditure) ==
    [type |-> type, resources_added |-> resources_added,
     tax_rate |-> tax_rate, expenditure |-> expenditure]

DistributionOperations ==
    {Operation(t, q, Rate(0, 1), 0) :
        t \in {"random", "preferential", "uniform"}, q \in 0..MaxAdded}

OperationSpecs ==
    DistributionOperations
    \cup {Operation("tax", 0, r, 0) : r \in TaxRates}
    \cup {Operation("expenditure", 0, Rate(0, 1), e) : e \in Expenditures}

\* the IncomeTaxCollectionOperation class that rgrr.simulator defines
ApplyTaxOperations == {Operation("apply_tax", 0, r, 0) : r \in TaxRates}

OperationLists == UNION {[1..n -> OperationSpecs] : n \in OperationCounts}

NoOperation == Operation("none", 0, Rate(0, 1), 0)

\* the random module's generator: the calls it has answered since the latest
\* random.seed call, with the values it gave (stream), the streams of the
\* earlier seedings with this seed (earlier), and the number of random.seed
\* calls (seedings).  A generator seeded again with the same seed gives the
\* same values to the same sequence of calls.
FreshGenerator == [stream |-> <<>>, earlier |-> {}, seedings |-> 0]

\* random.seed(seed): the stream starts over
Seeded(g) ==
    [stream |-> <<>>,
     earlier |-> IF g.seedings = 0 THEN {} ELSE g.earlier \cup {g.stream},
     seedings |-> g.seedings + 1]

RECURSIVE TreeAtDraw(_, _, _)
\* the Fenwick tree the j-th draw of a distribution that began in s saw: each
\* earlier draw added one unit to the node it selected
TreeAtDraw(s, draws, j) ==
    IF j = 1 THEN s.fenwick_tree
    ELSE FenwickAdd(TreeAtDraw(s, draws, j - 1), draws[j - 1].node_id, 1)

\* the random.randint(lo, hi) calls of a distribution of the given type that
\* began in s and made the given draws, in order: Random and the zero-total
\* fallback ask for a node id in [0, N-1] (val is the id returned); a weighted
\* draw asks for a rank in [1, total], recorded as the node find_kth resolved
\* it to (val) on the tree of that moment (tree).  A draw that raised
\* consumed nothing.
Requests(s, type, draws) ==
    [j \in 1..Len(draws) |->
        IF type = "random" \/ draws[j].fallback \/ s.total_resources + (j - 1) = 0
        THEN [lo |-> 0, hi |-> NodeCount(s.Nodes) - 1, val |-> draws[j].node_id,
              tree |-> <<>>]
        ELSE [lo |-> 1, hi |-> s.total_resources + (j - 1), val |-> draws[j].node_id,
              tree |-> TreeAtDraw(s, draws, j)]]

\* the first j calls of two streams asked for the same ranges
SameCalls(a, b, j) == \A i \in 1..j : a[i].lo = b[i].lo /\ a[i].hi = b[i].hi

\* a generator that gives unrelated values after it is seeded again
AgreesWithAnything(produced, request) == TRUE

\* the same call after the same calls returns the same value: the same node
\* id, or the same rank and so the same node of the same tree
Agrees(produced, request) ==
    produced.tree = request.tree => produced.val = request.val

\* the generator can answer the requests from where it stands: what it gives
\* repeats what it gave after each earlier seeding, as long as the calls are
\* the same
CanProduce(g, requests) ==
    LET current == g.stream \o requests
    IN \A h \in g.earlier :
          \A j \in (Len(g.stream) + 1)..Min(Len(h), Len(current)) :
              SameCalls(h, current, j) => Agrees(h[j], current[j])

\* the generator after answering the requests
Consumed(g, requests) == [g EXCEPT !.stream = @ \o requests]

\* the draws of one distribution: arbitrary without a seed, taken from the
\* seeded stream otherwise
Drawn(s, type, draws, ok) ==
    IF seed = "None"
    THEN rng' = rng
    ELSE LET requests == IF ok THEN Requests(s, type, draws)
                         ELSE Requests(s, type, SubSeq(draws, 1, Len(draws) - 1))
         IN /\ CanProduce(rng, requests)
            /\ rng' = Consumed(rng, requests)

\* ------------------------------------------------------------------ Init
\* Model(size, resources_per_node) and MultiStepSimulator(model, epochs, seed,
\* operations) for the given operation lists, epoch counts and seeds
\* the values str(uuid.uuid4()) takes, in the order of the calls
IdSequence == <<"sim-1", "sim-2">>

\* the ids a request can name; the last one is never given to a simulation
SimulationIds == {"sim-1", "sim-2", "sim-3"}

\* uuid4 always giving the id of the first call
Uuid4Repeating(simulations) == IdSequence[1]

\* str(uuid.uuid4()) in create_simulation: an id no stored simulation has
Uuid4(simulations) == IdSequence[Cardinality(simulations) + 1]

NoDetails == [id |-> "none", nodes |-> 0, epochs |-> 0, resources_per_node |-> 0,
              seed |-> "None", operations |-> <<>>]

NoResponse == [request |-> "none", id |-> "none", code |-> 0, body |-> "none",
               distributions |-> <<>>]

\* the server after create_simulation has stored the one MultiStepSimulator
\* of the model under "sim-1": simulation_store.simulations has that key,
\* no handler is running
\* details, listed: the bodies of the last details and list responses;
\* request: the JSON of the last create request; created: the JSON of the
\* request that created the first simulation
ServerInit == [simulations |-> {"sim-1"}, serving |-> "none", response |-> NoResponse,
               details |-> NoDetails, listed |-> {}, request |-> <<>>,
               created |-> <<>>]

\* the module as imported: simulations = {}
ServerEmpty == [ServerInit EXCEPT !.simulations = {}]

\* the server once a handler has answered: the new response and its body
\* take the place of the last ones
Answered(srv, response) ==
    [srv EXCEPT !.response = response, !.details = NoDetails, !.listed = {},
                !.request = <<>>]

\* bool(simulation_store.get_simulation(id)): simulations.get(id) is None for
\* an id that is not a key, the stored MultiStepSimulator otherwise
GetSimulationFound(id) == id \in server.simulations

InitWith(operation_lists, epoch_counts, seeds) ==
    /\ \E size \in 0..MaxNodes, resources_per_node \in InitialResources :
          /\ Nodes = ModelNodes(size, resources_per_node)
          /\ total_resources = size * resources_per_node
          /\ fenwick_tree = FenwickTreeInit(size)
          /\ history = [initial_total |-> size * resources_per_node,
                        resources_per_node |-> resources_per_node,
                        injected |-> 0,
                        distribution_only |-> TRUE,
                        direct_calls |-> 0,
                        epoch_start |-> [i \in 0..(size - 1) |-> resources_per_node],
                        snapshots |-> <<>>,
                        first_run |-> <<>>,
                        runs |-> 1]
    /\ total_tax_collected = 0
    /\ total_expenditure_incurred = 0
    /\ operations \in operation_lists
    /\ epochs \in epoch_counts
    /\ seed \in seeds
    /\ rng = FreshGenerator
    /\ server = ServerInit
    /\ epoch = 0
    /\ pc = 0
    /\ status = "idle"
    /\ last = [kind |-> "init", op |-> NoOperation, pre |-> Sim,
               draws |-> <<>>, ok |-> TRUE]

\* a run without a seed
Init == InitWith(OperationLists, EpochCounts, {"None"})

\* --------------------------------------------------------------- actions
Commit(s) ==
    /\ Nodes' = s.Nodes
    /\ total_resources' = s.total_resources
    /\ fenwick_tree' = s.fenwick_tree
    /\ total_tax_collected' = s.total_tax_collected
    /\ total_expenditure_incurred' = s.total_expenditure_incurred

\* the list MultiStepSimulator.run hands to the Simulator of an epoch:
\* self.operations itself, with nothing put before it
EpochOperations == operations

\* Simulator.run is at operations[pc]
AtOperation(type) ==
    /\ status = "running"
    /\ pc <= Len(operations)
    /\ operations[pc].type = type

\* a loop that passes over the operation after the one it executed
ExecutedSkippingNext(s, draws, ok) ==
    /\ Commit(s)
    /\ last' = [kind |-> operations[pc].type, op |-> operations[pc], pre |-> Sim,
                draws |-> draws, ok |-> ok]
    /\ pc' = IF ok THEN pc + 2 ELSE pc
    /\ status' = IF ok THEN "running" ELSE "failed"
    /\ history' =
          [history EXCEPT
              !.injected =
                  IF ok /\ operations[pc] \in DistributionOperations
                  THEN @ + operations[pc].resources_added ELSE @,
              !.distribution_only =
                  @ /\ operations[pc] \in DistributionOperations]
    /\ UNCHANGED <<operations, epochs, epoch, seed, server>>

\* Executed with the exception of a failing operation caught: the loop goes
\* on to the next operation
ExecutedCatchingFailure(s, draws, ok) ==
    /\ Commit(s)
    /\ last' = [kind |-> operations[pc].type, op |-> operations[pc], pre |-> Sim,
                draws |-> draws, ok |-> ok]
    /\ pc' = pc + 1
    /\ status' = "running"
    /\ history' =
          [history EXCEPT
              !.injected =
                  IF ok /\ operations[pc] \in DistributionOperations
                  THEN @ + operations[pc].resources_added ELSE @,
              !.distribution_only =
                  @ /\ operations[pc] \in DistributionOperations]
    /\ UNCHANGED <<operations, epochs, epoch, seed, server>>

\* operation.execute(self) returned (ok) or raised (~ok) leaving s
Executed(s, draws, ok) ==
    /\ Commit(s)
    /\ last' = [kind |-> operations[pc].type, op |-> operations[pc], pre |-> Sim,
                draws |-> draws, ok |-> ok]
    /\ pc' = IF ok THEN pc + 1 ELSE pc
    /\ status' = IF ok THEN "running" ELSE "failed"
    /\ history' =
          [history EXCEPT
              !.injected =
                  IF ok /\ operations[pc] \in DistributionOperations
                  THEN @ + operations[pc].resources_added ELSE @,
              !.distribution_only =
                  @ /\ operations[pc] \in DistributionOperations]
    /\ UNCHANGED <<operations, epochs, epoch, seed, server>>

\* MultiStepSimulator.run, loop body: Simulator(model, seed, operations),
\* then Simulator.run up to its first operation
BeginEpoch ==
    /\ status = "idle"
    /\ epoch < epochs
    /\ Commit(ResetResourcesAdded(SimulatorInit(Nodes, total_resources)))
    /\ epoch' = epoch + 1
    /\ pc' = 1
    /\ status' = "running"
    /\ last' = [kind |-> "begin", op |-> NoOperation, pre |-> Sim,
                draws |-> <<>>, ok |-> TRUE]
    /\ history' = [history EXCEPT !.epoch_start = get_resource_distribution(Sim)]
    /\ rng' = IF seed /= "None" THEN Seeded(rng) ELSE rng
    /\ UNCHANGED <<operations, epochs, seed, server>>

ExecuteRandom ==
    /\ AtOperation("random")
    /\ \E r \in RandomRuns(Sim, operations[pc].resources_added) :
          /\ Drawn(Sim, "random", r.draws, r.ok)
          /\ Executed(r.final, r.draws, r.ok)

ExecutePreferential ==
    /\ AtOperation("preferential")
    /\ \E r \in PreferentialRuns(Sim, operations[pc].resources_added) :
          /\ Drawn(Sim, "preferential", r.draws, r.ok)
          /\ Executed(r.final, r.draws, r.ok)

ExecuteUniform ==
    /\ AtOperation("uniform")
    /\ Executed(UniformDistribute(Sim, operations[pc].resources_added), <<>>, TRUE)
    /\ UNCHANGED rng

ExecuteIncomeTax ==
    /\ AtOperation("tax")
    /\ IF TaxRateValid(operations[pc].tax_rate)
       THEN Executed(IncomeTaxExecute(Sim, operations[pc].tax_rate), <<>>, TRUE)
       ELSE Executed(Sim, <<>>, FALSE)
    /\ UNCHANGED rng

ExecuteRequiredExpenditure ==
    /\ AtOperation("expenditure")
    /\ Executed(RequiredExpenditureExecute(Sim, operations[pc].expenditure),
                <<>>, TRUE)
    /\ UNCHANGED rng

\* Simulator.run returned; MultiStepSimulator.run calls get_status, whose
\* min(distribution) raises ValueError on an empty population
EndEpoch ==
    /\ status = "running"
    /\ pc > Len(operations)
    /\ status' = IF NodeCount(Nodes) = 0 THEN "failed"
                 ELSE IF epoch = epochs THEN "done" ELSE "idle"
    /\ last' = [kind |-> "end", op |-> NoOperation, pre |-> Sim,
                draws |-> <<>>, ok |-> NodeCount(Nodes) > 0]
    /\ history' = [history EXCEPT
                      !.snapshots =
                          IF NodeCount(Nodes) > 0
                          THEN Append(@, get_resource_distribution(Sim)) ELSE @]
    /\ UNCHANGED <<Nodes, total_resources, fenwick_tree, total_tax_collected,
                   total_expenditure_incurred, operations, epochs, epoch, pc,
                   seed, server, rng>>

Next ==
    \/ BeginEpoch
    \/ ExecuteRandom
    \/ ExecutePreferential
    \/ ExecuteUniform
    \/ ExecuteIncomeTax
    \/ ExecuteRequiredExpenditure
    \/ EndEpoch

Spec == Init /\ [][Next]_vars

\* rgrr.simulator.IncomeTaxCollectionOperation.execute
ExecuteApplyTax ==
    /\ AtOperation("apply_tax")
    /\ IF TaxRateValid(operations[pc].tax_rate)
       THEN Executed(apply_tax(Sim, operations[pc].tax_rate), <<>>, TRUE)
       ELSE Executed(Sim, <<>>, FALSE)
    /\ UNCHANGED rng

NextSimulatorClasses == Next \/ ExecuteApplyTax

\* one Simulator run whose list may also hold the operation classes that
\* rgrr.simulator itself defines
InitSimulatorClasses ==
    InitWith(UNION {[1..n -> OperationSpecs \cup ApplyTaxOperations] :
                       n \in OperationCounts},
             {1}, {"None"})

SpecSimulatorClasses == InitSimulatorClasses /\ [][NextSimulatorClasses]_vars

\* one Simulator run whose tax operations may also carry a negative rate
InitTaxRates ==
    InitWith(UNION {[1..n -> OperationSpecs \cup {Operation("tax", 0, Rate(-1, 2), 0)}] :
                       n \in OperationCounts},
             {1}, {"None"})

SpecTaxRates == InitTaxRates /\ [][Next]_vars

\* one Simulator run of three operations, each a distribution of MaxAdded
\* units, a tax of rate 1/2 or 1, or an expenditure of 1 or 2
ThreeOperationLists ==
    [1..3 ->
        {Operation(t, MaxAdded, Rate(0, 1), 0) :
            t \in {"random", "preferential", "uniform"}}
        \cup {Operation("tax", 0, r, 0) : r \in {Rate(1, 2), Rate(1, 1)}}
        \cup {Operation("expenditure", 0, Rate(0, 1), e) : e \in {1, 2}}]

InitThreeOperations == InitWith(ThreeOperationLists, {1}, {"None"})

SpecThreeOperations == InitThreeOperations /\ [][Next]_vars

\* a run with a seed
InitSeeded == InitWith(OperationLists, EpochCounts, {"42"})

SpecSeeded == InitSeeded /\ [][Next]_vars

\* a second MultiStepSimulator is built on a new Model of the same size and
\* resources_per_node, with the same epochs, seed and operations, after the
\* first one has run; the generator is the one the seed determines
RunAgain ==
    /\ status = "done"
    /\ history.runs = 1
    /\ LET size == NodeCount(Nodes)
           resources_per_node == history.resources_per_node
       IN /\ Nodes' = ModelNodes(size, resources_per_node)
          /\ total_resources' = size * resources_per_node
          /\ fenwick_tree' = FenwickTreeInit(size)
          /\ history' = [initial_total |-> size * resources_per_node,
                         resources_per_node |-> resources_per_node,
                         injected |-> 0,
                         distribution_only |-> TRUE,
                         direct_calls |-> 0,
                         epoch_start |-> [i \in 0..(size - 1) |-> resources_per_node],
                         snapshots |-> <<>>,
                         first_run |-> history.snapshots,
                         runs |-> 2]
    /\ total_tax_collected' = 0
    /\ total_expenditure_incurred' = 0
    /\ epoch' = 0
    /\ pc' = 0
    /\ status' = "idle"
    /\ last' = [kind |-> "again", op |-> NoOperation, pre |-> Sim,
                draws |-> <<>>, ok |-> TRUE]
    /\ UNCHANGED <<operations, epochs, seed, server, rng>>

NextTwoRuns == Next \/ RunAgain

\* lists with one distribution of 1..MaxAdded units, alone or next to a tax
\* of 1/2 or an expenditure of 1
TwoRunsOperationLists ==
    UNION {{<<d>>,
            <<d, Operation("tax", 0, Rate(1, 2), 0)>>,
            <<d, Operation("expenditure", 0, Rate(0, 1), 1)>>} :
           d \in {Operation(t, q, Rate(0, 1), 0) :
                     t \in {"random", "preferential", "uniform"}, q \in 1..MaxAdded}}

InitTwoRuns == InitWith(TwoRunsOperationLists, EpochCounts, {"42"})

SpecTwoRuns == InitTwoRuns /\ [][NextTwoRuns]_vars

\* a caller uses the Fenwick tree of the simulator directly:
\* simulator.fenwick_tree.add(i, delta) with i from -(N + 3) to N + 1
FenwickTreeAddCall ==
    /\ status = "running"
    /\ \E i \in (-(NodeCount(Nodes) + 3))..(NodeCount(Nodes) + 1),
          delta \in DirectAmounts :
          LET r == FenwickTreeAdd(fenwick_tree, i, delta)
          IN /\ fenwick_tree' = r.tree
             /\ last' = [kind |-> "tree_add",
                         op |-> Operation("tree_add", delta, Rate(0, 1), i),
                         pre |-> Sim, draws |-> <<>>,
                         ok |-> r.outcome = "returned"]
             /\ status' = r.outcome
    /\ UNCHANGED <<Nodes, total_resources, total_tax_collected,
                   total_expenditure_incurred, operations, epochs, epoch, pc,
                   history, seed, server, rng>>

NextFenwick == Next \/ FenwickTreeAddCall

\* one Simulator run with direct calls on its Fenwick tree
InitFenwick == InitWith(OperationLists, {1}, {"None"})

SpecFenwick == InitFenwick /\ [][NextFenwick]_vars

RECURSIVE PrefixSumAnyLoop(_, _, _)
\* the loop of FenwickTree.prefix_sum at any position i: it reads tree[i]
\* (IndexError at len(tree) and above) and moves down by i & (-i), which is
\* at least 1 for i > 0; a step of 0 would be a loop for ever ("hang")
PrefixSumAnyLoop(tree, i, s) ==
    IF i > 0
    THEN IF i >= TreeLen(tree)
         THEN [value |-> s, outcome |-> "IndexError"]
         ELSE IF LowBit(i) = 0
              THEN [value |-> s, outcome |-> "hang"]
              ELSE PrefixSumAnyLoop(tree, i - LowBit(i), s + tree[i])
    ELSE [value |-> s, outcome |-> "returned"]

\* FenwickTree.prefix_sum(i) for any integer i: the value and whether the
\* call returned, raised or never returns
FenwickTreePrefixSum(tree, i) == PrefixSumAnyLoop(tree, i + 1, 0)

RECURSIVE FindKthAnyLoop(_, _, _, _)
\* the loop of FenwickTree.find_kth for any integer k: p >>= 1 in every
\* round; a round that left p as it was would be a loop for ever ("hang")
FindKthAnyLoop(tree, i, p, k) ==
    IF p > 0
    THEN IF p \div 2 = p
         THEN [value |-> i, outcome |-> "hang"]
         ELSE IF i + p < TreeLen(tree) /\ tree[i + p] < k
              THEN FindKthAnyLoop(tree, i + p, p \div 2, k - tree[i + p])
              ELSE FindKthAnyLoop(tree, i, p \div 2, k)
    ELSE [value |-> i, outcome |-> "returned"]

\* FenwickTree.find_kth(k) for any integer k
FenwickTreeFindKth(tree, k) ==
    FindKthAnyLoop(tree, 0, Pow2(BitLength(TreeLen(tree)) - 1), k)

\* a caller reads the Fenwick tree of the simulator directly:
\* simulator.fenwick_tree.prefix_sum(i) with i from -(N + 3) to N + 1; last.op
\* keeps the argument (expenditure) and the value (resources_added)
FenwickTreePrefixSumCall ==
    /\ status = "running"
    /\ \E i \in (-(NodeCount(Nodes) + 3))..(NodeCount(Nodes) + 1) :
          LET r == FenwickTreePrefixSum(fenwick_tree, i)
          IN /\ last' = [kind |-> "prefix_sum",
                         op |-> Operation("prefix_sum", r.value, Rate(0, 1), i),
                         pre |-> Sim, draws |-> <<>>,
                         ok |-> r.outcome = "returned"]
             /\ status' = r.outcome
    /\ UNCHANGED <<Nodes, total_resources, fenwick_tree, total_tax_collected,
                   total_expenditure_incurred, operations, epochs, epoch, pc,
                   history, seed, server, rng>>

\* simulator.fenwick_tree.find_kth(k) with k from -1 to the total weight + 2;
\* last.op keeps the argument (expenditure) and the value (resources_added)
FenwickTreeFindKthCall ==
    /\ status = "running"
    /\ \E k \in (-1)..(total_resources + 2) :
          LET r == FenwickTreeFindKth(fenwick_tree, k)
          IN /\ last' = [kind |-> "find_kth",
                         op |-> Operation("find_kth", r.value, Rate(0, 1), k),
                         pre |-> Sim, draws |-> <<>>,
                         ok |-> r.outcome = "returned"]
             /\ status' = r.outcome
    /\ UNCHANGED <<Nodes, total_resources, fenwick_tree, total_tax_collected,
                   total_expenditure_incurred, operations, epochs, epoch, pc,
                   history, seed, server, rng>>

NextTreeCalls ==
    \/ Next
    \/ FenwickTreeAddCall
    \/ FenwickTreePrefixSumCall
    \/ FenwickTreeFindKthCall

\* one Simulator run with direct calls of the three methods of its Fenwick tree
SpecTreeCalls == InitFenwick /\ [][NextTreeCalls]_vars

\* what add_resources_to_node returns: it has no return statement
AddResourcesReturnValue == "None"

\* bool(value) of a Python value
Truthy(value) == value \notin {"None", "False", "0"}

\* main() with --method specific, --target-node target_node and
\* --add-resources add_resources: a Simulator is built on the new Model, an
\* add_resources of 0 is replaced by the model's total, the whole amount goes
\* to add_resources_to_node(target_node, ...), and main reports an error and
\* returns unless the value the call returned is true.  last.ok is main's
\* report; a node id out of range ends main with the AssertionError.
MainSpecific ==
    /\ status = "idle"
    /\ epoch = 0
    /\ \E target_node \in (-1)..NodeCount(Nodes), add_resources \in 0..MaxAdded :
          LET built == SimulatorInit(Nodes, total_resources)
              amount == IF add_resources = 0 THEN total_resources ELSE add_resources
              in_range == NodeIdInRange(built, target_node)
          IN /\ IF in_range
                THEN Commit(add_resources_to_node(built, target_node, amount))
                ELSE Commit(built)
             /\ last' = [kind |-> "specific",
                         op |-> Operation("specific", add_resources, Rate(0, 1),
                                          target_node),
                         pre |-> built, draws |-> <<>>,
                         ok |-> in_range /\ Truthy(AddResourcesReturnValue)]
             /\ status' = IF in_range THEN "done" ELSE "failed"
    /\ epoch' = 1
    /\ UNCHANGED <<operations, epochs, pc, history, seed, server, rng>>

NextMain == Next \/ MainSpecific

InitMain == InitWith(OperationLists, {1}, {"None"})

SpecMain == InitMain /\ [][NextMain]_vars

\* GET /simulations/<id>/distributions, the whole handler: 404 for an id
\* that is not stored; otherwise it reads simulation.distributions, and an
\* AttributeError there leaves the handler (500); a non-empty value is
\* returned (200), an empty one is the 400 "has not run"
GetDistribution ==
    /\ server.serving = "none"
    /\ \E id \in SimulationIds :
          server' =
              Answered(server,
                  IF ~GetSimulationFound(id)
                  THEN [request |-> "distributions", id |-> id, code |-> 404,
                        body |-> "not found", distributions |-> <<>>]
                  ELSE IF ReadDistributions.raised
                       THEN [request |-> "distributions", id |-> id, code |-> 500,
                             body |-> "AttributeError", distributions |-> <<>>]
                       ELSE IF ReadDistributions.value /= <<>>
                            THEN [request |-> "distributions", id |-> id,
                                  code |-> 200, body |-> "distributions",
                                  distributions |-> ReadDistributions.value]
                            ELSE [request |-> "distributions", id |-> id,
                                  code |-> 400, body |-> "has not run",
                                  distributions |-> <<>>])
    /\ UNCHANGED <<Nodes, total_resources, fenwick_tree, total_tax_collected,
                   total_expenditure_incurred, operations, epochs, epoch, pc,
                   status, last, history, seed, rng>>

\* POST /simulations/<id>/run up to simulator.run(): for an id that is not
\* stored get_simulation gives None, None.run() raises AttributeError inside
\* the try, and the except answers 500; for the stored id the handler enters
\* MultiStepSimulator.run (the epochs are the steps of Next)
RunSimulationCall ==
    /\ server.serving = "none"
    /\ status = "idle"
    /\ epoch = 0
    /\ \E id \in SimulationIds :
          /\ id = IdSequence[1] \/ ~GetSimulationFound(id)
          /\ server' =
              IF GetSimulationFound(id)
              THEN [Answered(server, [NoResponse EXCEPT !.request = "run",
                                                        !.id = id])
                       EXCEPT !.serving = "run"]
              ELSE Answered(server,
                       [request |-> "run", id |-> id, code |-> 500,
                        body |-> "Failed to run simulation",
                        distributions |-> <<>>])
    /\ last' = [kind |-> "run_simulation", op |-> NoOperation, pre |-> Sim,
                draws |-> <<>>, ok |-> TRUE]
    /\ UNCHANGED <<Nodes, total_resources, fenwick_tree, total_tax_collected,
                   total_expenditure_incurred, operations, epochs, epoch, pc,
                   status, history, seed, rng>>

\* POST /simulations/<id>/run after simulator.run(): 200 "completed" when it
\* returned, the 500 of the except when an exception left it
RunSimulationReturn ==
    /\ server.serving = "run"
    /\ status \in {"done", "failed"}
    /\ server' =
          [server EXCEPT
              !.serving = "none",
              !.response =
                  [@ EXCEPT !.code = IF status = "done" THEN 200 ELSE 500,
                            !.body = IF status = "done" THEN "completed"
                                     ELSE "Failed to run simulation"]]
    /\ UNCHANGED <<Nodes, total_resources, fenwick_tree, total_tax_collected,
                   total_expenditure_incurred, operations, epochs, epoch, pc,
                   status, last, history, seed, rng>>

\* the simulator runs only inside the run handler
NextServer ==
    \/ GetDistribution
    \/ RunSimulationCall
    \/ (server.serving = "run" /\ Next)
    \/ RunSimulationReturn

SpecServer == Init /\ [][NextServer]_vars

\* ------------------------------------------------- the simulation store
\* dict.get(key): is the key there
Has(data, key) == key \in DOMAIN data

\* the JSON of an operation: its type and its own parameter
DistributionData ==
    {[type |-> t, resources_added |-> 2] :
        t \in {"random", "preferential", "uniform"}}

TaxData == [type |-> "tax", tax_rate |-> Rate(1, 2)]

ExpenditureData == [type |-> "expenditure", expenditure |-> 1]

UnknownTypeData == [type |-> "bogus", resources_added |-> 1]

OperationDataLists ==
    {<<>>, <<TaxData>>, <<ExpenditureData>>}
    \cup UNION {{<<d>>, <<d, TaxData>>, <<d, ExpenditureData>>} : d \in DistributionData}

\* the node counts of the requests
StoreNodeCounts == {0, 1, 2}

\* requests with every required key, with and without a seed
CompleteData ==
    UNION {{[nodes |-> n, epochs |-> e, resources_per_node |-> r, operations |-> o],
            [nodes |-> n, epochs |-> e, resources_per_node |-> r, operations |-> o,
             seed |-> "42"]} :
           n \in StoreNodeCounts, e \in EpochCounts, r \in InitialResources,
           o \in OperationDataLists}

UniformData == [type |-> "uniform", resources_added |-> 2]

\* requests with no key, with one required key missing, and with an operation
\* of a type that does not exist, first or after a good one
IncompleteData ==
    {<<>>,
     [epochs |-> 1, resources_per_node |-> 1, operations |-> <<UniformData>>],
     [nodes |-> 1, resources_per_node |-> 1, operations |-> <<UniformData>>],
     [nodes |-> 1, epochs |-> 1, operations |-> <<UniformData>>],
     [nodes |-> 1, epochs |-> 1, resources_per_node |-> 1]}

UnknownTypeRequests ==
    {[nodes |-> 1, epochs |-> 1, resources_per_node |-> 1,
      operations |-> <<UnknownTypeData>>],
     [nodes |-> 1, epochs |-> 1, resources_per_node |-> 1,
      operations |-> <<UniformData, UnknownTypeData>>]}

\* the requests made once a simulation is stored
LaterData ==
    {<<>>,
     [epochs |-> 1, resources_per_node |-> 1, operations |-> <<UniformData>>],
     [nodes |-> 1, epochs |-> 1, resources_per_node |-> 1],
     [nodes |-> 1, epochs |-> 1, resources_per_node |-> 1,
      operations |-> <<UniformData, UnknownTypeData>>],
     [nodes |-> 1, epochs |-> 1, resources_per_node |-> 1,
      operations |-> <<UniformData>>]}

CreateData == CompleteData \cup IncompleteData \cup UnknownTypeRequests

OperationTypes == {"random", "preferential", "uniform", "tax", "expenditure"}

\* data.get('operations', [])
OperationsData(data) == IF Has(data, "operations") THEN data.operations ELSE <<>>

\* the object the loop of create_simulation builds from one op_data
OperationCreated(op_data) ==
    IF op_data.type \in {"random", "preferential", "uniform"}
    THEN Operation(op_data.type,
                   IF Has(op_data, "resources_added") THEN op_data.resources_added
                   ELSE 0,
                   Rate(0, 1), 0)
    ELSE IF op_data.type = "tax"
         THEN Operation("tax", 0,
                        IF Has(op_data, "tax_rate") THEN op_data.tax_rate
                        ELSE Rate(0, 1),
                        0)
         ELSE Operation("expenditure", 0, Rate(0, 1),
                        IF Has(op_data, "expenditure") THEN op_data.expenditure
                        ELSE 0)

\* create_simulation up to the construction: the status code it answers
\* (`not data` is true of {}; the None test sees the [] default of a missing
\* 'operations', never None)
CreateCode(data) ==
    IF DOMAIN data = {}
    THEN 400
    ELSE IF ~Has(data, "nodes") \/ ~Has(data, "epochs")
            \/ ~Has(data, "resources_per_node")
         THEN 400
         ELSE IF \E i \in DOMAIN OperationsData(data) :
                    OperationsData(data)[i].type \notin OperationTypes
              THEN 400
              ELSE 201

CreateBody(data) ==
    IF DOMAIN data = {}
    THEN "No JSON data provided"
    ELSE IF ~Has(data, "nodes") \/ ~Has(data, "epochs")
            \/ ~Has(data, "resources_per_node")
         THEN "Missing required parameters"
         ELSE IF \E i \in DOMAIN OperationsData(data) :
                    OperationsData(data)[i].type \notin OperationTypes
              THEN "Unknown operation type"
              ELSE "created"

\* POST /simulations, the whole handler.  The simulator variables follow the
\* first simulation stored: its Model and MultiStepSimulator are built here;
\* a later simulation is an object of its own, kept by its id only.
CreateSimulation ==
    /\ server.serving = "none"
    /\ \E data \in (IF server.simulations = {} THEN CreateData ELSE LaterData) :
          LET created == CreateCode(data) = 201
              first == created /\ server.simulations = {}
              simulation_id == Uuid4(server.simulations)
          IN /\ created => Cardinality(server.simulations) < Len(IdSequence)
             /\ server' =
                   [Answered(server,
                             [request |-> "create",
                              id |-> IF created THEN simulation_id ELSE "none",
                              code |-> CreateCode(data), body |-> CreateBody(data),
                              distributions |-> <<>>])
                       EXCEPT
                       !.simulations = IF created THEN @ \cup {simulation_id} ELSE @,
                       !.request = data,
                       !.created = IF first THEN data ELSE @]
             /\ IF first
                THEN /\ Nodes' = ModelNodes(data.nodes, data.resources_per_node)
                     /\ total_resources' = data.nodes * data.resources_per_node
                     /\ fenwick_tree' = FenwickTreeInit(data.nodes)
                     /\ operations' =
                           [i \in DOMAIN OperationsData(data) |->
                               OperationCreated(OperationsData(data)[i])]
                     /\ epochs' = data.epochs
                     /\ seed' = IF Has(data, "seed") THEN data.seed ELSE "None"
                     /\ history' =
                           [history EXCEPT
                               !.initial_total = data.nodes * data.resources_per_node,
                               !.resources_per_node = data.resources_per_node,
                               !.epoch_start =
                                   [i \in 0..(data.nodes - 1) |->
                                       data.resources_per_node]]
                     /\ last' =
                           [last EXCEPT
                               !.pre =
                                   [@ EXCEPT
                                       !.Nodes = ModelNodes(data.nodes,
                                                            data.resources_per_node),
                                       !.total_resources =
                                           data.nodes * data.resources_per_node,
                                       !.fenwick_tree = FenwickTreeInit(data.nodes)]]
                ELSE UNCHANGED <<Nodes, total_resources, fenwick_tree, operations,
                                 epochs, seed, history, last>>
    /\ UNCHANGED <<total_tax_collected, total_expenditure_incurred, epoch, pc,
                   status, rng>>

\* GET /simulations, the whole handler: list(simulations.keys())
ListSimulations ==
    /\ server.serving = "none"
    /\ server' =
          [Answered(server, [request |-> "list", id |-> "none", code |-> 200,
                             body |-> "ids", distributions |-> <<>>])
              EXCEPT !.listed = server.simulations]
    /\ UNCHANGED <<Nodes, total_resources, fenwick_tree, total_tax_collected,
                   total_expenditure_incurred, operations, epochs, epoch, pc,
                   status, last, history, seed, rng>>

\* the name get_simulation_details gives the class of an operation
OpTypeStr(op) ==
    IF op.type \in OperationTypes THEN op.type ELSE ""

\* op_dict of get_simulation_details: the type and the parameter of the class
OperationDetails(op) ==
    IF op.type \in {"random", "preferential", "uniform"}
    THEN [type |-> OpTypeStr(op), resources_added |-> op.resources_added]
    ELSE IF op.type = "tax"
         THEN [type |-> OpTypeStr(op), tax_rate |-> op.tax_rate]
         ELSE [type |-> OpTypeStr(op), expenditure |-> op.expenditure]

\* the details dict of get_simulation_details: resources_per_node is read
\* from the balance of node 0 of the model, 0 when there is no node
SimulationDetails(id) ==
    [id |-> id,
     nodes |-> NodeCount(Nodes),
     epochs |-> epochs,
     resources_per_node |-> IF NodeCount(Nodes) > 0 THEN Nodes[0].resources ELSE 0,
     seed |-> seed,
     operations |-> [i \in DOMAIN operations |-> OperationDetails(operations[i])]]

\* GET /simulations/<id>, the whole handler, for the first simulation and
\* for ids that are not stored
GetSimulationDetails ==
    /\ server.serving = "none"
    /\ \E id \in SimulationIds :
          /\ id = IdSequence[1] \/ ~GetSimulationFound(id)
          /\ server' =
                IF GetSimulationFound(id)
                THEN [Answered(server, [request |-> "details", id |-> id,
                                        code |-> 200, body |-> "details",
                                        distributions |-> <<>>])
                         EXCEPT !.details = SimulationDetails(id)]
                ELSE Answered(server, [request |-> "details", id |-> id,
                                       code |-> 404, body |-> "not found",
                                       distributions |-> <<>>])
    /\ UNCHANGED <<Nodes, total_resources, fenwick_tree, total_tax_collected,
                   total_expenditure_incurred, operations, epochs, epoch, pc,
                   status, last, history, seed, rng>>

NextStore ==
    \/ CreateSimulation
    \/ ListSimulations
    \/ GetSimulationDetails
    \/ NextServer

\* the server started, nothing stored: the simulator variables hold an empty
\* model until the first create
InitStore ==
    /\ Nodes = ModelNodes(0, 0)
    /\ total_resources = 0
    /\ fenwick_tree = FenwickTreeInit(0)
    /\ total_tax_collected = 0
    /\ total_expenditure_incurred = 0
    /\ operations = <<>>
    /\ epochs = 0
    /\ epoch = 0
    /\ pc = 0
    /\ status = "idle"
    /\ seed = "None"
    /\ rng = FreshGenerator
    /\ server = ServerEmpty
    /\ history = [initial_total |-> 0, resources_per_node |-> 0, injected |-> 0,
                  distribution_only |-> TRUE, direct_calls |-> 0,
                  epoch_start |-> [i \in 0..(-1) |-> 0],
                  snapshots |-> <<>>, first_run |-> <<>>, runs |-> 1]
    /\ last = [kind |-> "init", op |-> NoOperation, pre |-> Sim,
               draws |-> <<>>, ok |-> TRUE]

SpecStore == InitStore /\ [][NextStore]_vars

\* a caller of the simulator adds to a node directly between two operations
\* (as main.py's 'specific' method and the tests do); the assertion of
\* add_resources_to_node fails for a node id out of range
DirectAdd ==
    /\ status = "running"
    /\ history.direct_calls < MaxDirectCalls
    /\ \E node_id \in (-1)..NodeCount(Nodes), amount \in DirectAmounts :
          /\ IF NodeIdInRange(Sim, node_id)
             THEN Commit(add_resources_to_node(Sim, node_id, amount))
             ELSE Commit(Sim)
          /\ last' = [kind |-> "add",
                      op |-> Operation("add", amount, Rate(0, 1), node_id),
                      pre |-> Sim, draws |-> <<>>,
                      ok |-> NodeIdInRange(Sim, node_id)]
          /\ status' = IF NodeIdInRange(Sim, node_id) THEN "running" ELSE "failed"
    /\ history' = [history EXCEPT !.direct_calls = @ + 1,
                                  !.distribution_only = FALSE]
    /\ UNCHANGED <<operations, epochs, epoch, pc, seed, server, rng>>

NextDirect == Next \/ DirectAdd

\* one Simulator run (a single epoch) with direct calls between its operations
InitDirect == InitWith(OperationLists, {1}, {"None"})

SpecDirect == InitDirect /\ [][NextDirect]_vars

\* ------------------------------------------------------ claim vocabulary
N == NodeCount(Nodes)

RECURSIVE SumUpTo(_, _)
\* d[0] + ... + d[i]
SumUpTo(d, i) == IF i < 0 THEN 0 ELSE d[i] + SumUpTo(d, i - 1)

\* the balances now, and before the step that led here
Balances == [i \in DOMAIN Nodes |-> Nodes[i].resources]
BalancesBefore == [i \in DOMAIN last.pre.Nodes |-> last.pre.Nodes[i].resources]
AddedBefore == [i \in DOMAIN last.pre.Nodes |-> last.pre.Nodes[i].resources_added]

\* a Simulator (and so a Fenwick tree) has been built
SimulatorExists == epoch >= 1

\* the operation that led here, when it returned normally
Did(type) == last.kind = type /\ last.ok

\* number of draws that selected node i
Hits(draws, i) == Cardinality({j \in 1..Len(draws) : draws[j].node_id = i})

\* C1: in every reachable state (after distributions, IncomeTax,
\* RequiredExpenditure and direct add_resources_to_node calls),
\* model.total_resources is the sum of node.resources over all nodes.
C1_TotalIsSumOfBalances == total_resources = SumUpTo(Balances, N - 1)

\* a direct call with a negative amount and a tax deduction have both acted
C1_Witness ==
    /\ last.kind = "add" /\ last.ok /\ last.op.resources_added < 0
    /\ N = 3
    /\ total_tax_collected > 0
    /\ total_resources > 0

\* C2: once a Simulator exists, for every node index i the Fenwick
\* prefix_sum(i) is the sum of the balances of nodes 0..i (so prefix_sum(N-1)
\* is model.total_resources).
C2_FenwickMirrorsBalances ==
    SimulatorExists =>
        /\ \A i \in DOMAIN Nodes :
              prefix_sum(fenwick_tree, i) = SumUpTo(Balances, i)
        /\ N >= 1 => prefix_sum(fenwick_tree, N - 1) = total_resources

\* second epoch (the tree was rebuilt), three nodes with unequal balances,
\* right after a tax deduction went through the tree
C2_Witness ==
    /\ epoch = 2 /\ N = 3
    /\ Did("tax") /\ total_resources < last.pre.total_resources
    /\ Balances[0] < Balances[1] /\ Balances[2] < Balances[1]

\* the total weight the tree holds
TotalWeight(tree) == IF TreeLen(tree) <= 1 THEN 0 ELSE prefix_sum(tree, TreeLen(tree) - 2)

\* C3: whenever every weight is >= 0 (after any adds with signed deltas),
\* find_kth(k) is, for every k in 1..total weight, the smallest index i in
\* [0,N) with prefix_sum(i) >= k.
C3_FindKthIsSmallestIndex ==
    (SimulatorExists /\ \A i \in DOMAIN Nodes : Balances[i] >= 0) =>
        \A k \in 1..TotalWeight(fenwick_tree) :
            LET r == find_kth(fenwick_tree, k)
            IN /\ r \in 0..(N - 1)
               /\ prefix_sum(fenwick_tree, r) >= k
               /\ \A j \in 0..(r - 1) : prefix_sum(fenwick_tree, j) < k

\* a negative delta has just been applied, a zero weight sits before a
\* positive one, and ranks reach the last node
C3_Witness ==
    /\ last.kind = "add" /\ last.ok /\ last.op.resources_added < 0
    /\ N = 3
    /\ \A i \in DOMAIN Nodes : Balances[i] >= 0
    /\ Balances[0] = 0 /\ Balances[1] > 0 /\ Balances[2] > 0
    /\ find_kth(fenwick_tree, TotalWeight(fenwick_tree)) = 2

\* C4: for distribution-only runs on N >= 1 nodes, total_resources is the
\* initial total plus the sum of the amounts of the distributions executed;
\* a completed run of E epochs of a single distribution of Q ends with
\* initial total + E * Q.
C4_Conservation ==
    (N >= 1 /\ history.distribution_only) =>
        /\ total_resources = history.initial_total + history.injected
        /\ (status = "done" /\ Len(operations) = 1) =>
              total_resources =
                  history.initial_total + epochs * operations[1].resources_added

\* a two-epoch run of one preferential distribution of 2 units has completed
C4_Witness ==
    /\ status = "done" /\ epochs = 2 /\ N = 3
    /\ Len(operations) = 1
    /\ operations[1].type = "preferential" /\ operations[1].resources_added = 2
    /\ history.initial_total = 3
    /\ total_resources = 7

\* C5: UniformDistribution(Q) on N >= 1 nodes adds floor(Q/N) to every node
\* plus 1 to each node with id < Q mod N, and nothing else; no random draw
\* is made, so the result is a function of the state before and Q.
C5_UniformExactShares ==
    (Did("uniform") /\ N >= 1) =>
        /\ \A i \in DOMAIN Nodes :
              /\ Balances[i] = BalancesBefore[i]
                    + (last.op.resources_added \div N)
                    + (IF i < last.op.resources_added % N THEN 1 ELSE 0)
              /\ Nodes[i].resources_added - AddedBefore[i]
                    = Balances[i] - BalancesBefore[i]
        /\ last.draws = <<>>
        /\ total_tax_collected = last.pre.total_tax_collected
        /\ total_expenditure_incurred = last.pre.total_expenditure_incurred

\* Uniform(2) on three nodes: nodes 0 and 1 got the extra unit, node 2 nothing
C5_Witness ==
    /\ Did("uniform") /\ N = 3 /\ last.op.resources_added = 2
    /\ Balances[0] = BalancesBefore[0] + 1
    /\ Balances[1] = BalancesBefore[1] + 1
    /\ Balances[2] = BalancesBefore[2]

\* largest and smallest balance of a non-empty distribution
MaxOf(d) == CHOOSE x \in {d[i] : i \in DOMAIN d} : \A i \in DOMAIN d : d[i] <= x
MinOf(d) == CHOOSE x \in {d[i] : i \in DOMAIN d} : \A i \in DOMAIN d : x <= d[i]

\* the statement as the specification words it: after Uniform(Q), whatever the
\* balances were before, max - min <= 1 and the sum has grown by exactly Q
C6_SpreadAtMostOneFromAnyBalances ==
    (Did("uniform") /\ N >= 1) =>
        /\ MaxOf(Balances) - MinOf(Balances) <= 1
        /\ SumUpTo(Balances, N - 1)
              = SumUpTo(BalancesBefore, N - 1) + last.op.resources_added

\* C6: after UniformDistribution(Q) on N >= 1 nodes the sum of the balances
\* has grown by exactly Q, and when all balances were equal before the
\* operation the largest and the smallest balance differ by at most 1.
C6_SpreadAtMostOneFromEqualBalances ==
    (Did("uniform") /\ N >= 1) =>
        /\ SumUpTo(Balances, N - 1)
              = SumUpTo(BalancesBefore, N - 1) + last.op.resources_added
        /\ (MaxOf(BalancesBefore) = MinOf(BalancesBefore)) =>
              MaxOf(Balances) - MinOf(Balances) <= 1

\* Uniform(Q) with Q mod N /= 0 ran from equal balances: the spread is 1
C6_Witness ==
    /\ Did("uniform") /\ N = 3
    /\ last.op.resources_added % N /= 0
    /\ MaxOf(BalancesBefore) = MinOf(BalancesBefore)
    /\ MaxOf(Balances) - MinOf(Balances) = 1

\* C7: RandomDistribution(Q) on N >= 1 nodes makes exactly Q draws, each of a
\* node id in [0,N) that receives exactly 1 unit: every balance is its
\* previous value plus the number of draws that hit it, no balance has
\* decreased and total_resources has grown by exactly Q.
C7_RandomOneUnitPerDraw ==
    (Did("random") /\ N >= 1) =>
        /\ Len(last.draws) = last.op.resources_added
        /\ \A j \in 1..Len(last.draws) : last.draws[j].node_id \in 0..(N - 1)
        /\ \A i \in DOMAIN Nodes :
              /\ Balances[i] = BalancesBefore[i] + Hits(last.draws, i)
              /\ Balances[i] >= BalancesBefore[i]
        /\ total_resources = last.pre.total_resources + last.op.resources_added

\* two draws hit two different nodes, the second before the first in id order
C7_Witness ==
    /\ Did("random") /\ N = 3 /\ Len(last.draws) = 2
    /\ last.draws[1].node_id = 2 /\ last.draws[2].node_id = 0
    /\ Balances[2] = BalancesBefore[2] + 1
    /\ Balances[1] = BalancesBefore[1]

RECURSIVE After(_, _, _)
\* the simulator after the first j draws of a distribution that began in s
After(s, draws, j) ==
    IF j = 0 THEN s
    ELSE add_resources_to_node(After(s, draws, j - 1), draws[j].node_id, 1)

\* the ranks k in 1..total that find_kth resolves to node i
RanksOf(s, i) == {k \in 1..s.total_resources : find_kth(s.fenwick_tree, k) = i}

\* C8: in PreferentialDistribution(Q), N >= 1, every draw made while
\* total_resources > 0 gives 1 unit to find_kth(k) for some k in 1..total on
\* the balances as they are at that draw (units given earlier in the same call
\* included); the number of k selecting node i is its balance, so a node with
\* balance 0 is never selected and the selected id is in [0,N).
C8_PreferentialProportional ==
    (Did("preferential") /\ N >= 1) =>
        /\ Len(last.draws) = last.op.resources_added
        /\ Sim = After(last.pre, last.draws, Len(last.draws))
        /\ \A j \in 1..Len(last.draws) :
              LET b == After(last.pre, last.draws, j - 1)
                  node_id == last.draws[j].node_id
              IN b.total_resources > 0 =>
                    /\ ~last.draws[j].fallback
                    /\ node_id \in 0..(N - 1)
                    /\ \E k \in 1..b.total_resources :
                          find_kth(b.fenwick_tree, k) = node_id
                    /\ b.Nodes[node_id].resources > 0
                    /\ \A i \in DOMAIN Nodes :
                          Cardinality(RanksOf(b, i)) = b.Nodes[i].resources

\* weighted draws from balances (0, 0, 1): nodes 0 and 1 hold nothing and both
\* units went to node 2
C8_Witness ==
    /\ Did("preferential") /\ N = 3 /\ Len(last.draws) = 2
    /\ last.pre.total_resources > 0
    /\ BalancesBefore[0] = 0 /\ BalancesBefore[2] = 1
    /\ last.draws[1].node_id = 2 /\ last.draws[2].node_id = 2
    /\ ~last.draws[1].fallback /\ ~last.draws[2].fallback
    /\ BalancesBefore[1] = 0

\* C9: the zero-total fallback is decided for each unit: a unit is placed on a
\* random node in [0,N) exactly when total_resources is 0 at that unit.  From
\* all balances 0 only the first unit is placed at random and all Q units end
\* on that single node.
C9_FallbackPerUnit ==
    (Did("preferential") /\ N >= 1) =>
        /\ \A j \in 1..Len(last.draws) :
              /\ last.draws[j].fallback
                    <=> After(last.pre, last.draws, j - 1).total_resources = 0
              /\ last.draws[j].node_id \in 0..(N - 1)
        /\ ((\A i \in DOMAIN Nodes : BalancesBefore[i] = 0)
               /\ last.op.resources_added >= 1) =>
              /\ last.draws[1].fallback
              /\ \A j \in 2..Len(last.draws) :
                    /\ ~last.draws[j].fallback
                    /\ last.draws[j].node_id = last.draws[1].node_id
              /\ \A i \in DOMAIN Nodes :
                    Balances[i] = IF i = last.draws[1].node_id
                                  THEN last.op.resources_added ELSE 0

\* from all balances 0, two units: the first fell on node 2 at random and the
\* second followed it
C9_Witness ==
    /\ Did("preferential") /\ N = 3 /\ last.op.resources_added = 2
    /\ \A i \in DOMAIN Nodes : BalancesBefore[i] = 0
    /\ last.draws[1].fallback /\ last.draws[1].node_id = 2
    /\ Balances[2] = 2

\* what IncomeTax deducts from a node: floor(resources_added * r) when positive
Deduction(resources_added, tax_rate) ==
    LET t == (resources_added * tax_rate.num) \div tax_rate.den
    IN IF t > 0 THEN t ELSE 0

\* C10: IncomeTaxCollectionOperation(r), 0 < r <= 1, deducts from each node
\* floor(resources_added * r) of its balance when that is positive and nothing
\* otherwise, and total_tax_collected grows by the sum of the deductions.
C10_TaxOnResourcesAdded ==
    (Did("tax") /\ last.op.tax_rate.num > 0) =>
        /\ \A i \in DOMAIN Nodes :
              BalancesBefore[i] - Balances[i]
                  = Deduction(AddedBefore[i], last.op.tax_rate)
        /\ total_tax_collected - last.pre.total_tax_collected
              = SumUpTo([i \in DOMAIN Nodes |-> BalancesBefore[i] - Balances[i]],
                        N - 1)

\* rate 1/2: a node that received 2 units this epoch paid 1
C10_Witness ==
    /\ Did("tax") /\ last.op.tax_rate = Rate(1, 2)
    /\ \E i \in DOMAIN Nodes :
          AddedBefore[i] = 2 /\ Balances[i] = BalancesBefore[i] - 1
    /\ total_tax_collected > last.pre.total_tax_collected

\* an epoch of exactly [a distribution, an income tax with rate in (0,1]] has
\* just run its tax
AfterDistributionThenTax ==
    /\ last.kind \in {"tax", "apply_tax"} /\ last.ok
    /\ last.op.tax_rate.num > 0
    /\ epoch = 1 /\ Len(operations) = 2 /\ pc = 3
    /\ operations[1] \in DistributionOperations
    /\ N >= 1

\* C11: tax collected by IncomeTax is not put back in the same epoch: after
\* one epoch of [a distribution of Q, IncomeTax(r)], total_resources is the
\* total before the epoch + Q - total_tax_collected, and total_tax_collected
\* is positive when floor(resources_added * r) is positive for some node.
C11_TaxLeavesThePopulation ==
    AfterDistributionThenTax =>
        /\ total_resources = history.initial_total
                                + operations[1].resources_added
                                - total_tax_collected
        /\ (\E i \in DOMAIN Nodes : Deduction(AddedBefore[i], last.op.tax_rate) > 0)
              => total_tax_collected > 0

\* no distribution precedes the operation just executed in its epoch
NoDistributionYet ==
    \A j \in 1..(pc - 2) : operations[j] \notin DistributionOperations

\* C12: IncomeTax takes only from resource added in the current epoch: a tax
\* never brings a node's balance below the balance it held at the start of
\* the epoch, and a tax that runs before any distribution of its epoch
\* deducts nothing, also when earlier epochs added resource to the nodes.
C12_TaxSparesEarlierBalance ==
    Did("tax") =>
        /\ \A i \in DOMAIN Nodes :
              Balances[i] < BalancesBefore[i] => Balances[i] >= history.epoch_start[i]
        /\ NoDistributionYet =>
              /\ Balances = BalancesBefore
              /\ total_resources = last.pre.total_resources
              /\ total_tax_collected = last.pre.total_tax_collected

\* second epoch, a tax of rate 1 ran first and took nothing although the
\* first epoch had added to node 0
C12_Witness ==
    /\ Did("tax") /\ epoch = 2 /\ pc = 2 /\ N = 3
    /\ last.op.tax_rate = Rate(1, 1)
    /\ history.epoch_start[0] = history.resources_per_node + 2
    /\ Balances[0] = history.epoch_start[0]

\* C13: IncomeTax with a rate outside [0,1] fails with a validation error and
\* changes no balance, no resources_added, neither total_resources nor the
\* collected-tax counter; IncomeTax with rate 0 succeeds and changes nothing.
C13_TaxRateValidation ==
    last.kind = "tax" =>
        LET r == last.op.tax_rate
        IN /\ (r.num < 0 \/ r.num > r.den) =>
                 /\ ~last.ok /\ status = "failed"
                 /\ Sim = last.pre
           /\ (0 <= r.num /\ r.num <= r.den) => last.ok
           /\ r.num = 0 => Sim = last.pre

\* rate -1/2 was rejected while a node's resources_added was negative (the
\* product would have been positive)
C13_Witness ==
    /\ last.kind = "tax" /\ last.op.tax_rate = Rate(-1, 2)
    /\ status = "failed" /\ ~last.ok
    /\ \E i \in DOMAIN Nodes : Nodes[i].resources_added < 0

\* what RequiredExpenditure(amount) takes from each node
Taken(amount) ==
    [i \in DOMAIN Nodes |->
        IF BalancesBefore[i] <= amount THEN BalancesBefore[i] ELSE amount]

\* C14: RequiredExpenditure(amount), amount >= 0, deducts from every node
\* min(balance before, amount): every balance is >= 0 afterwards,
\* total_resources drops by the sum of the minima, total_expenditure_incurred
\* is that sum when amount > 0, and amount = 0 changes nothing.
C14_ExpenditureTakesMin ==
    Did("expenditure") =>
        LET amount == last.op.expenditure
        IN /\ \A i \in DOMAIN Nodes :
                 /\ Balances[i] = BalancesBefore[i] - Taken(amount)[i]
                 /\ Balances[i] >= 0
           /\ total_resources
                 = last.pre.total_resources - SumUpTo(Taken(amount), N - 1)
           /\ amount > 0 =>
                 total_expenditure_incurred = SumUpTo(Taken(amount), N - 1)
           /\ amount = 0 => Sim = last.pre

\* amount 2 on three nodes, one of them short: less than N * amount incurred
C14_Witness ==
    /\ Did("expenditure") /\ last.op.expenditure = 2 /\ N = 3
    /\ \E i \in DOMAIN Nodes : BalancesBefore[i] = 1 /\ Balances[i] = 0
    /\ \E i \in DOMAIN Nodes : BalancesBefore[i] = 3 /\ Balances[i] = 1
    /\ total_expenditure_incurred < N * 2

RECURSIVE InjectedBy(_, _)
\* the units the distributions among ops[1..n] inject
InjectedBy(ops, n) ==
    IF n = 0 THEN 0
    ELSE InjectedBy(ops, n - 1)
            + (IF ops[n] \in DistributionOperations THEN ops[n].resources_added ELSE 0)

\* what tax and expenditure have removed from the population since the epoch
\* began (pc - 1 operations of the epoch have run)
RemovedThisEpoch ==
    SumUpTo(history.epoch_start, N - 1) + InjectedBy(operations, pc - 1)
        - total_resources

\* C15: the counters accumulate over the operations of an epoch: after
\* several IncomeTax operations total_tax_collected is everything deducted as
\* tax in the epoch, and after several RequiredExpenditure operations
\* total_expenditure_incurred is everything deducted as expenditure in the
\* epoch.
C15_CountersAccumulate ==
    (epoch >= 1 /\ N >= 1 /\ status /= "failed") =>
        /\ (\A j \in 1..(pc - 1) : operations[j].type /= "expenditure")
              => total_tax_collected = RemovedThisEpoch
        /\ (\A j \in 1..(pc - 1) : operations[j].type /= "tax")
              => total_expenditure_incurred = RemovedThisEpoch

\* the part of C15 about IncomeTax alone
C15_TaxPart ==
    (epoch >= 1 /\ N >= 1 /\ status /= "failed") =>
        ((\A j \in 1..(pc - 1) : operations[j].type /= "expenditure")
            => total_tax_collected = RemovedThisEpoch)

\* an operation of the list has just returned
DidOperation ==
    /\ last.kind \in {"random", "preferential", "uniform", "tax", "expenditure"}
    /\ last.ok

\* C16: Simulator.run sets every resources_added to 0, then executes the
\* operations one at a time in the order given, each on the state the earlier
\* ones left: the first operation sees the reset counters, the operation that
\* just returned is the one before the current position, a tax right after
\* the first distribution taxes what that distribution gave each node, a tax
\* at the head of the list collects nothing, and an expenditure after a
\* distribution and a rate-1 tax takes min(balance, amount) of the post-tax
\* balances, which are the balances of the start of the epoch.
C16_OperationsInOrder ==
    /\ last.kind = "begin" =>
          pc = 1 /\ \A i \in DOMAIN Nodes : Nodes[i].resources_added = 0
    /\ DidOperation =>
          /\ last.op = operations[pc - 1]
          /\ pc = 2 => \A i \in DOMAIN Nodes : AddedBefore[i] = 0
    /\ (Did("tax") /\ pc = 3 /\ operations[1] \in DistributionOperations) =>
          /\ \A i \in DOMAIN Nodes :
                Balances[i] = BalancesBefore[i]
                    - Deduction(BalancesBefore[i] - history.epoch_start[i],
                                last.op.tax_rate)
          /\ (last.op.tax_rate = Rate(1, 1) /\ N >= 1) =>
                total_tax_collected = operations[1].resources_added
    /\ (Did("tax") /\ pc = 2) =>
          total_tax_collected = 0 /\ Balances = history.epoch_start
    /\ (Did("expenditure") /\ pc = 4
            /\ operations[1] \in DistributionOperations
            /\ operations[2] = Operation("tax", 0, Rate(1, 1), 0)) =>
          \A i \in DOMAIN Nodes :
              Balances[i] = history.epoch_start[i]
                  - Min(history.epoch_start[i], last.op.expenditure)

\* a distribution, a rate-1 tax and an expenditure of 2 ran in this order on
\* one node that started with 1: the expenditure took 1, not the 2 it would
\* have taken from the balance before the tax
C16_Witness ==
    /\ Did("expenditure") /\ pc = 4 /\ N = 1
    /\ operations[1] \in DistributionOperations
    /\ operations[2] = Operation("tax", 0, Rate(1, 1), 0)
    /\ last.op.expenditure = 2
    /\ history.epoch_start[0] = 1
    /\ total_tax_collected = MaxAdded
    /\ total_expenditure_incurred = 1
    /\ Balances[0] = 0

\* C17: at the start of every epoch e > 1, before any operation of the epoch
\* runs, every node's resources_added is 0 while every balance and
\* total_resources are what the end of epoch e-1 left: only resources_added
\* is reset between epochs.
C17_OnlyResourcesAddedReset ==
    (last.kind = "begin" /\ epoch > 1) =>
        /\ \A i \in DOMAIN Nodes : Nodes[i].resources_added = 0
        /\ Balances = BalancesBefore
        /\ total_resources = last.pre.total_resources
        /\ DOMAIN Nodes = DOMAIN last.pre.Nodes

\* epoch 2 begins: a node that gained in epoch 1 keeps its balance, above the
\* initial one, and its resources_added went from nonzero to 0
C17_Witness ==
    /\ last.kind = "begin" /\ epoch = 2
    /\ \E i \in DOMAIN Nodes :
          /\ AddedBefore[i] > 0
          /\ Nodes[i].resources_added = 0
          /\ Balances[i] = history.epoch_start[i]
          /\ Balances[i] >= 2
    /\ \E i \in DOMAIN Nodes : AddedBefore[i] < 0

\* C18: when the base operations of epoch e > 1 are about to run, the tax
\* collected and the expenditure incurred in epoch e-1 have been injected back
\* into the population (total_resources is the total epoch e-1 ended with
\* plus both counters of epoch e-1, so nothing is injected when both are 0),
\* and nothing is injected before epoch 1.
C18_CarryOverInjected ==
    last.kind = "begin" =>
        total_resources =
            last.pre.total_resources
                + (IF epoch > 1
                   THEN last.pre.total_tax_collected
                            + last.pre.total_expenditure_incurred
                   ELSE 0)

\* the parts of C18 that need no injection: nothing is carried into epoch 1,
\* and nothing is added before epoch e > 1 when epoch e-1 collected no tax
\* and incurred no expenditure
C18_NothingToCarry ==
    (/\ last.kind = "begin"
     /\ \/ epoch = 1
        \/ /\ last.pre.total_tax_collected = 0
           /\ last.pre.total_expenditure_incurred = 0) =>
        total_resources = last.pre.total_resources /\ Balances = BalancesBefore

\* C19: with carry-over nothing vanishes: at the end of every epoch e,
\* total_resources + the tax collected in e + the expenditure incurred in e
\* is the initial total + e * (the sum of the amounts of the base list's
\* distributions).
C19_NothingVanishes ==
    (last.kind = "end" /\ N >= 1) =>
        total_resources + total_tax_collected + total_expenditure_incurred
            = history.initial_total
                + epoch * InjectedBy(operations, Len(operations))

\* C19 for the first epoch of lists with at most one expenditure, where no
\* carry-over is due and the expenditure counter is not overwritten
C19_FirstEpoch ==
    (/\ last.kind = "end" /\ N >= 1 /\ epoch = 1
     /\ Cardinality({j \in 1..Len(operations) :
                        operations[j].type = "expenditure"
                            /\ operations[j].expenditure > 0}) <= 1) =>
        total_resources + total_tax_collected + total_expenditure_incurred
            = history.initial_total + InjectedBy(operations, Len(operations))

\* C20: with a seed, the generator is seeded exactly once, before the first
\* epoch, and never again: once the first epoch has begun there has been one
\* random.seed call, and every draw continues the stream (no stream was cut
\* short by a later seeding, so no value is produced a second time).
C20_SeededOnce ==
    seed /= "None" =>
        /\ rng.seedings = (IF epoch >= 1 THEN 1 ELSE 0)
        /\ rng.earlier = {}

\* C20 within the first epoch, where the generator has been seeded once
C20_FirstEpoch ==
    (seed /= "None" /\ epoch <= 1) =>
        /\ rng.seedings = epoch
        /\ rng.earlier = {}

\* what the code does instead: every epoch seeds the generator again, and a
\* Random distribution of epoch e > 1 on the same node count repeats the node
\* ids drawn at the same places of epoch 1
C20_ReseededEveryEpoch ==
    seed /= "None" =>
        /\ rng.seedings = epoch
        /\ (Did("random") /\ epoch > 1 /\ pc = 2 /\ N >= 1) =>
              \A h \in rng.earlier : \A j \in 1..Len(last.draws) :
                  h[j].val = last.draws[j].node_id

\* C21: a second multi-epoch run from the same node count and initial
\* balance, with the same seed and the same operation list, produces the same
\* per-epoch distributions as the first: every epoch the second run has
\* completed ended with the balances, node by node, the same epoch of the
\* first run ended with, and a completed second run has as many epochs.
C21_SameSeedSameDistributions ==
    (history.runs = 2 /\ seed /= "None") =>
        /\ Len(history.snapshots) <= Len(history.first_run)
        /\ \A j \in 1..Len(history.snapshots) :
              history.snapshots[j] = history.first_run[j]
        /\ status = "done" => history.snapshots = history.first_run

\* the second run of two epochs is complete; its draws were random ones that
\* left unequal balances, different in epoch 1 and epoch 2
C21_Witness ==
    /\ history.runs = 2 /\ status = "done" /\ seed /= "None"
    /\ Len(history.snapshots) = 2
    /\ operations[1].type \in {"random", "preferential"}
    /\ history.snapshots[1] /= history.snapshots[2]
    /\ \E i, j \in DOMAIN Nodes : Balances[i] > Balances[j] + 1

\* C22: the run record has one entry per completed epoch: after epoch e it
\* can be read and holds exactly e snapshots, snapshot j being the balances
\* at the end of epoch j (so no later epoch changed an earlier snapshot), and
\* after a run of E epochs it holds E snapshots.
C22_RunRecordPerEpoch ==
    (last.kind = "end" /\ last.ok) =>
        /\ ~ReadDistributions.raised
        /\ Len(ReadDistributions.value) = epoch
        /\ ReadDistributions.value = history.snapshots
        /\ status = "done" => Len(ReadDistributions.value) = epochs

\* what the run does give a reader of the record: the balances at the end of
\* every completed epoch exist (history.snapshots has one entry per epoch,
\* the last one being the balances now), but the simulator object never
\* holds them
C22_NoRunRecord ==
    (last.kind = "end" /\ last.ok) =>
        /\ ReadDistributions.raised
        /\ Len(history.snapshots) = epoch
        /\ history.snapshots[epoch] = Balances

\* the node id and the amount of the direct add_resources_to_node call that
\* led here
AddNodeId == last.op.expenditure
AddAmount == last.op.resources_added

\* C23: add_resources_to_node(node_id, amount) with node_id outside [0, N)
\* fails before anything is mutated: every balance, every resources_added,
\* total_resources and the Fenwick tree are what they were before the call.
C23_OutOfRangeAddFails ==
    (last.kind = "add" /\ (AddNodeId < 0 \/ AddNodeId >= N)) =>
        /\ ~last.ok
        /\ status = "failed"
        /\ Nodes = last.pre.Nodes
        /\ total_resources = last.pre.total_resources
        /\ fenwick_tree = last.pre.fenwick_tree

\* a call with node id N on three nodes that hold resource failed
C23_Witness ==
    /\ last.kind = "add" /\ ~last.ok
    /\ N = 3 /\ AddNodeId = 3
    /\ total_resources > 0
    /\ \E i \in DOMAIN Nodes : Nodes[i].resources_added > 0

\* the weight the Fenwick tree holds for node i
Weight(tree, i) ==
    prefix_sum(tree, i) - (IF i = 0 THEN 0 ELSE prefix_sum(tree, i - 1))

C24_TreeAddChecksIndex ==
    last.kind = "tree_add" =>
        IF 0 <= AddNodeId /\ AddNodeId < N
        THEN /\ status = "returned"
             /\ \A i \in DOMAIN Nodes :
                   Weight(fenwick_tree, i) =
                       Weight(last.pre.fenwick_tree, i)
                           + (IF i = AddNodeId THEN AddAmount ELSE 0)
        ELSE /\ status = "IndexError"
             /\ fenwick_tree = last.pre.fenwick_tree

\* the half of C24 about an index in [0, N)
C24_InRange ==
    (last.kind = "tree_add" /\ 0 <= AddNodeId /\ AddNodeId < N) =>
        /\ status = "returned"
        /\ \A i \in DOMAIN Nodes :
              Weight(fenwick_tree, i) =
                  Weight(last.pre.fenwick_tree, i)
                      + (IF i = AddNodeId THEN AddAmount ELSE 0)

\* what add does with an index outside [0, N): at N and above it returns
\* without an error and without a change; from -1 down to -(N + 2) it never
\* returns, having written slot 0 (and slots counted from the end of the
\* array before it); only below -(N + 2) does it raise, before any write
C24_OutOfRange ==
    (last.kind = "tree_add" /\ ~(0 <= AddNodeId /\ AddNodeId < N)) =>
        /\ AddNodeId >= N =>
              status = "returned" /\ fenwick_tree = last.pre.fenwick_tree
        /\ (AddNodeId < 0 /\ AddNodeId >= -(N + 2)) =>
              /\ status = "hang"
              /\ fenwick_tree[0] - last.pre.fenwick_tree[0]
                    \in {AddAmount, 2 * AddAmount}
        /\ AddNodeId < -(N + 2) =>
              status = "IndexError" /\ fenwick_tree = last.pre.fenwick_tree

\* C25: TargetedDistribution(Q, target_id) with target_id in [0, N) adds all
\* Q units to node target_id and to no other node and is reported as a
\* success; with target_id outside [0, N) it fails and changes nothing.
C25_TargetedDistribution ==
    last.kind = "specific" =>
        IF 0 <= AddNodeId /\ AddNodeId < N
        THEN /\ last.ok
             /\ \A i \in DOMAIN Nodes :
                   Balances[i] =
                       BalancesBefore[i] + (IF i = AddNodeId THEN AddAmount ELSE 0)
             /\ total_resources = last.pre.total_resources + AddAmount
        ELSE /\ ~last.ok
             /\ status = "failed"
             /\ Sim = last.pre

\* the parts of C25 the code has: for Q >= 1 and a target in range the Q
\* units go to the target and to no other node; a target out of range fails
\* and changes nothing
C25_UnitsAndFailure ==
    last.kind = "specific" =>
        IF 0 <= AddNodeId /\ AddNodeId < N
        THEN AddAmount >= 1 =>
                 /\ \A i \in DOMAIN Nodes :
                       Balances[i] =
                           BalancesBefore[i]
                               + (IF i = AddNodeId THEN AddAmount ELSE 0)
                 /\ total_resources = last.pre.total_resources + AddAmount
        ELSE /\ ~last.ok
             /\ status = "failed"
             /\ Sim = last.pre

\* what main reports: never a success
C25_NeverReportedAsSuccess == last.kind = "specific" => ~last.ok

\* C27: an operation that fails during an epoch is neither caught nor retried:
\* the run is failed from then on and no later operation and no later epoch
\* runs; the failing operation leaves the simulator as the earlier operations
\* of the run left it (their effects are not rolled back).
C27_FailureAbortsRun ==
    /\ [](~last.ok => status = "failed")
    /\ [](IF status = "failed"
          THEN /\ ~last.ok
               /\ last.kind /= "end" =>
                      pc \in DOMAIN operations /\ last.op = operations[pc]
               /\ Sim = last.pre
          ELSE TRUE)
    /\ [][status /= "failed"]_vars

\* the second of two operations failed in epoch 1 of 2, after the first had
\* added resources
C27_Witness ==
    /\ status = "failed"
    /\ epoch = 1
    /\ epochs = 2
    /\ pc = 2
    /\ total_resources > history.initial_total
    /\ Balances /= history.epoch_start

\* C28 as stated, for every Q: on an empty population Uniform(Q) returns
\* having changed nothing, and Random(Q) and Preferential(Q) fail with an
\* error having placed no unit.
C28_EmptyPopulationAnyQ ==
    (N = 0 /\ last.kind \in {"uniform", "random", "preferential"}) =>
        /\ Sim = last.pre
        /\ IF last.kind = "uniform"
           THEN last.ok /\ status = "running"
           ELSE ~last.ok /\ status = "failed"

\* C28: on an empty population (N = 0) Uniform(Q) is a no-op that succeeds;
\* Random(Q) and Preferential(Q) with Q >= 1 fail with an error at their first
\* draw and place no unit; with Q = 0 they make no draw and succeed as no-ops.
C28_EmptyPopulation ==
    (N = 0 /\ last.kind \in {"uniform", "random", "preferential"}) =>
        /\ Sim = last.pre
        /\ IF last.kind = "uniform" \/ last.op.resources_added = 0
           THEN last.ok /\ status = "running" /\ last.draws = <<>>
           ELSE /\ ~last.ok
                /\ status = "failed"
                /\ Len(last.draws) = 1
                /\ last.draws[1].node_id = -1

\* Preferential(Q) with Q >= 1 has failed on an empty population
C28_PreferentialFailed ==
    /\ N = 0
    /\ last.kind = "preferential"
    /\ last.op.resources_added >= 1
    /\ status = "failed"

\* Random(Q) with Q >= 1 has failed on an empty population
C28_Witness ==
    /\ N = 0
    /\ last.kind = "random"
    /\ last.op.resources_added >= 1
    /\ status = "failed"

\* Uniform(Q) with Q >= 1 has returned on an empty population
C28_UniformReturned ==
    /\ N = 0
    /\ last.kind = "uniform"
    /\ last.op.resources_added >= 1
    /\ status = "running"

Response == server.response

\* C29: get_distributions(id) answers not-found (404) for an unknown id, the
\* not-yet-run error (400) for a stored simulation whose run has not
\* completed, and after the run one per-node balance sequence per epoch, in
\* epoch order.
C29_GetDistributions ==
    Response.request = "distributions" =>
        IF Response.id \notin server.simulations
        THEN Response.code = 404
        ELSE IF status = "done"
             THEN /\ Response.code = 200
                  /\ Len(Response.distributions) = epochs
                  /\ Response.distributions = history.snapshots
             ELSE Response.code = 400 /\ Response.body = "has not run"

\* the part of C29 the code has: an unknown id is answered 404
C29_UnknownIdNotFound ==
    (Response.request = "distributions" /\ Response.id \notin server.simulations) =>
        Response.code = 404 /\ Response.body = "not found"

\* what the handler does for a stored simulation, run or not: the read of
\* simulation.distributions raises, no distribution is returned
C29_StoredIdRaises ==
    (Response.request = "distributions" /\ Response.id \in server.simulations) =>
        /\ Response.code = 500
        /\ Response.body = "AttributeError"
        /\ Response.distributions = <<>>

\* C30: run(id) on an id that was never created answers not-found (404), runs
\* no epoch and changes no stored simulation; run(id) on a stored id executes
\* all epochs and answers 200 "completed".
C30_RunSimulation ==
    (Response.request = "run" /\ server.serving = "none") =>
        IF Response.id \notin server.simulations
        THEN /\ Response.code = 404
             /\ epoch = 0
             /\ status = "idle"
             /\ Sim = last.pre
             /\ server.simulations = ServerInit.simulations
        ELSE status = "done" =>
                 /\ Response.code = 200
                 /\ Response.body = "completed"
                 /\ epoch = epochs

\* what run(id) does: an id never created is answered 500 with nothing run
\* and nothing changed; a stored id runs every epoch and is answered 200
\* "completed", or 500 when an operation failed
C30_RunSimulationAnswers ==
    (Response.request = "run" /\ server.serving = "none") =>
        IF Response.id \notin server.simulations
        THEN /\ Response.code = 500
             /\ epoch = 0
             /\ status = "idle"
             /\ Sim = last.pre
             /\ server.simulations = ServerInit.simulations
        ELSE IF status = "done"
             THEN /\ Response.code = 200
                  /\ Response.body = "completed"
                  /\ epoch = epochs
                  /\ Len(history.snapshots) = epochs
             ELSE status = "failed" /\ Response.code = 500

\* a stored simulation has run both of its epochs and been answered
C30_Completed ==
    /\ Response.request = "run"
    /\ Response.code = 200
    /\ epochs = 2
    /\ epoch = 2

\* the seed of a create request: None when the key is absent
SeedGiven(data) == IF Has(data, "seed") THEN data.seed ELSE "None"

\* C31: get_details(id) returns the node count, the epoch count, the initial
\* resources_per_node, the seed and the operation list (types and parameters,
\* in order) given to create, at any time after the creation, also after a
\* run has changed the balances.
C31_DetailsEchoCreate ==
    (Response.request = "details" /\ Response.code = 200) =>
        /\ server.details.id = Response.id
        /\ server.details.nodes = server.created.nodes
        /\ server.details.epochs = server.created.epochs
        /\ server.details.resources_per_node = server.created.resources_per_node
        /\ server.details.seed = SeedGiven(server.created)
        /\ server.details.operations = OperationsData(server.created)

\* the part of C31 the code has: all of the request but resources_per_node is
\* echoed at any time
C31_EchoButResources ==
    (Response.request = "details" /\ Response.code = 200) =>
        /\ server.details.id = Response.id
        /\ server.details.nodes = server.created.nodes
        /\ server.details.epochs = server.created.epochs
        /\ server.details.seed = SeedGiven(server.created)
        /\ server.details.operations = OperationsData(server.created)

\* what resources_per_node of the details is: the balance node 0 has now, 0
\* for a model without nodes; it is the value given to create as long as there
\* is a node 0 and no epoch has begun
C31_ResourcesIsBalanceOfNodeZero ==
    (Response.request = "details" /\ Response.code = 200) =>
        /\ server.details.resources_per_node =
              (IF N > 0 THEN Nodes[0].resources ELSE 0)
        /\ (N > 0 /\ epoch = 0) =>
              server.details.resources_per_node = server.created.resources_per_node

\* details asked after a run of two epochs
C31_DetailsAfterRun ==
    /\ Response.request = "details"
    /\ Response.code = 200
    /\ status = "done"
    /\ epoch = 2
    /\ Len(server.details.operations) = 2

RequiredKeys == {"nodes", "epochs", "resources_per_node", "operations"}

\* a create request with a required key missing or with an operation of a
\* type that does not exist
Rejectable(data) ==
    \/ ~(RequiredKeys \subseteq DOMAIN data)
    \/ \E i \in DOMAIN OperationsData(data) :
          OperationsData(data)[i].type \notin OperationTypes

\* C32: create with a required parameter missing (nodes, epochs,
\* resources_per_node or operations) or with an operation of unrecognized
\* type is answered 400 and stores no simulation: the set of known ids is
\* unchanged.
C32_CreateRejected ==
    [][(server'.response.request = "create" /\ Rejectable(server'.request)) =>
          /\ server'.response.code = 400
          /\ server'.simulations = server.simulations]_vars

\* the part of C32 the code has: a request without nodes, epochs or
\* resources_per_node, or with an operation of unrecognized type, is answered
\* 400 and nothing is stored or built
C32_CreateRejectedButOperations ==
    [][(/\ server'.response.request = "create"
        /\ \/ ~({"nodes", "epochs", "resources_per_node"}
                    \subseteq DOMAIN server'.request)
           \/ \E i \in DOMAIN OperationsData(server'.request) :
                 OperationsData(server'.request)[i].type \notin OperationTypes) =>
          /\ server'.response.code = 400
          /\ server'.simulations = server.simulations
          /\ Sim' = Sim
          /\ operations' = operations]_vars

\* what create does without the operations key: the simulation is stored with
\* an empty operation list
C32_NoOperationsKeyStored ==
    [][(/\ server'.response.request = "create"
        /\ DOMAIN server'.request = {"nodes", "epochs", "resources_per_node"}) =>
          /\ server'.response.code = 201
          /\ Cardinality(server'.simulations) = Cardinality(server.simulations) + 1
          /\ server.simulations = {} => operations' = <<>>]_vars

C33_ListedEmpty ==
    /\ Response.request = "list"
    /\ server.created = <<>>
    /\ server.listed = {}

\* the carry-over operations for an epoch that collected tax and incurred
\* expenditure: one uniform distribution for each amount that is not 0
CarryOverOperations(tax, expenditure) ==
    (IF tax > 0 THEN <<Operation("uniform", tax, Rate(0, 1), 0)>> ELSE <<>>)
        \o (IF expenditure > 0
            THEN <<Operation("uniform", expenditure, Rate(0, 1), 0)>> ELSE <<>>)

\* the carry-over operations for the epoch before the one that has just begun
CarryOverOfLastEpoch ==
    IF epoch > 1
    THEN CarryOverOperations(last.pre.total_tax_collected,
                             last.pre.total_expenditure_incurred)
    ELSE <<>>

\* C34: operations keep no state and a run does not change the base list:
\* executing an operation leaves its parameters unchanged, and every epoch e
\* applies exactly the base list preceded only by the carry-over operations
\* for epoch e-1, never by carry-over operations of epochs before e-1.
C34_BaseListAfterCarryOver ==
    /\ [][operations' = operations]_vars
    /\ [](IF last.kind = "begin"
          THEN EpochOperations = CarryOverOfLastEpoch \o operations
          ELSE TRUE)

\* the parts of C34 the code has: no step of a run changes the list or the
\* parameters of an operation, every epoch is given the base list, and the
\* operation that has just run is the one of the base list at its position
C34_BaseListKept ==
    /\ [][operations' = operations]_vars
    /\ [](EpochOperations = operations)
    /\ [](IF DidOperation
          THEN pc - 1 \in DOMAIN operations /\ last.op = operations[pc - 1]
          ELSE TRUE)

\* C35: from non-negative initial balances, after any sequence of epochs of
\* distributions with Q >= 0, IncomeTax with a rate in [0, 1] and
\* RequiredExpenditure with an amount >= 0, every balance is >= 0, so every
\* Fenwick weight is >= 0 and the total find_kth is asked about is >= 0.
C35_BalancesNeverNegative ==
    /\ \A i \in DOMAIN Nodes :
          /\ Nodes[i].resources >= 0
          /\ Weight(fenwick_tree, i) >= 0
    /\ total_resources >= 0
    /\ prefix_sum(fenwick_tree, N - 1) >= 0

\* in epoch 2 a tax of rate 1 has taken a node's whole balance
C35_Witness ==
    /\ epoch = 2
    /\ last.kind = "tax"
    /\ last.ok
    /\ last.op.tax_rate = Rate(1, 1)
    /\ \E i \in DOMAIN Nodes : Balances[i] = 0 /\ BalancesBefore[i] > 0

\* in epoch 2 an expenditure has taken a node's whole balance, less than the
\* amount
C35_ExpenditureToZero ==
    /\ epoch = 2
    /\ last.kind = "expenditure"
    /\ last.ok
    /\ \E i \in DOMAIN Nodes :
          /\ Balances[i] = 0
          /\ BalancesBefore[i] > 0
          /\ BalancesBefore[i] < last.op.expenditure

C37_UniformShare(total, n, i) ==
    (total \div n) + (IF i < total % n THEN 1 ELSE 0)

\* floor(a * r) for an amount a >= 0
C37_Floor(a, r) == (a * r.num) \div r.den

C37_NegativeInflowUntaxed ==
    /\ Did("tax")
    /\ last.op.tax_rate = Rate(1, 1)
    /\ \E i \in DOMAIN Nodes :
          /\ AddedBefore[i] < 0
          /\ Balances[i] = BalancesBefore[i]

\* a tax has run after an expenditure and a distribution: it took a part of
\* the inflow that the expenditure had left
C37_TaxAfterExpenditure ==
    /\ Did("tax") /\ pc = 4
    /\ operations[2].type = "expenditure"
    /\ \E i \in DOMAIN Nodes :
          /\ AddedBefore[i] = 1
          /\ history.epoch_start[i] + 1 = BalancesBefore[i]
          /\ Balances[i] = BalancesBefore[i] - 1

\* the argument and the value of the direct call of a Fenwick tree method
\* that led here
TreeCallArgument == last.op.expenditure

TreeCallValue == last.op.resources_added

\* C38: FenwickTree.add(i, delta), prefix_sum(i) and find_kth(k) terminate for
\* every integer argument, including indices outside [0, N) such as i = -1 and
\* ranks outside [1, total weight]: no call is left looping for ever (a call
\* that raises has terminated).
C38_TreeCallsTerminate ==
    last.kind \in {"tree_add", "prefix_sum", "find_kth"} => status /= "hang"

\* the part of C38 the code has: prefix_sum and find_kth terminate for every
\* argument (prefix_sum returns 0 below index 0 and raises from index N on,
\* find_kth returns 0 for a rank below 1 and a position in 0..N for every
\* rank), and add terminates for every index from 0 on without changing the
\* tree from N on
C38_AllButAddBelowZero ==
    /\ last.kind = "prefix_sum" =>
          /\ status \in {"returned", "IndexError"}
          /\ status = "IndexError" <=> TreeCallArgument >= N
          /\ TreeCallArgument < 0 => TreeCallValue = 0
          /\ (0 <= TreeCallArgument /\ TreeCallArgument < N) =>
                TreeCallValue = prefix_sum(fenwick_tree, TreeCallArgument)
    /\ last.kind = "find_kth" =>
          /\ status = "returned"
          /\ TreeCallValue \in 0..N
          /\ TreeCallValue = find_kth(fenwick_tree, TreeCallArgument)
          /\ TreeCallArgument < 1 => TreeCallValue = 0
    /\ (last.kind = "tree_add" /\ TreeCallArgument >= 0) => status = "returned"

\* add(-1, delta) has been called on the tree of a simulator with nodes and
\* does not return
C38_AddMinusOneHangs ==
    /\ last.kind = "tree_add"
    /\ TreeCallArgument = -1
    /\ N >= 1
    /\ status = "hang"

\* find_kth has been called with a rank above the total weight and
\* prefix_sum with index -1: both returned
C38_FindKthAboveTotal ==
    /\ last.kind = "find_kth"
    /\ TreeCallArgument > total_resources
    /\ N >= 1
    /\ status = "returned"
    /\ TreeCallValue = N

C38_PrefixSumMinusOne ==
    /\ last.kind = "prefix_sum"
    /\ TreeCallArgument = -1
    /\ N >= 1
    /\ status = "returned"

====
